---- MODULE Spec2Model ----
(***************************************************************************)
(* Model of the two aggregators of planka-mcp:                             *)
(*   getActivityFeed  (src/tools/activity-feed.ts)                         *)
(*   getBoardSummary  (src/unnamed/part_000, tools/board-summary)          *)
(* The backing service is the environment: every accessor request picks    *)
(* its response from a bounded set of responses, and may fail.             *)
(***************************************************************************)
EXTENDS Integers, Sequences, FiniteSets, TLC

VARIABLES
    pc,          \* position of the running getActivityFeed call
    params,      \* its GetActivityFeedParams: since, until, maxComments
    from,        \* window start, a Date (ms since epoch, or NaN)
    to,          \* window end, a Date
    boards,      \* result of getBoards(projectId)
    bi,          \* index of the board being processed
    lists,       \* result of getLists(boardId)
    li,          \* index of the list being processed
    cards,       \* result of getCards(listId)
    ci,          \* index of the card being processed
    locals,      \* changes, affectedCardsMap, userIdsSet, the six counters, cardHasChanges
    result,      \* what the call gave its caller: a value or a thrown Error
    visited,     \* history: per visited card, the card and the two responses it got
    inflight,    \* the accessor requests of the call that have not settled yet
    summary,     \* the frame of the getBoardSummary call and what its caller got
    fan,         \* the frame of a getBoardSummary call followed request by request
    unlabel,     \* the frame of the removeLabelFromCard call and the service's card labels
    resolve,     \* the frame of the resolveUsers call and what its caller got
    create,      \* the frame of the createCardWithTasks call and what the service stored
    lookup,      \* taskCardIdMap, the service's tasks and the last task operation
    batch,       \* the frame of the batchCreateTasks call and what its caller got
    watch,       \* the frame of startCardStopwatch and stopCardStopwatch
    rpc,         \* the frame of app.post("/mcp") and handleJsonRpc
    manager      \* the frame of createCard and of the card manager's create

feedVars == <<pc, params, from, to, boards, bi, lists, li, cards, ci, locals,
              result, visited, inflight>>

vars == <<feedVars, summary, fan, unlabel, resolve, create, lookup, batch, watch, rpc, manager>>

\* what a step of one operation leaves alone: the variables of the others
exceptFeed == <<summary, fan, unlabel, resolve, create, lookup, batch, watch, rpc, manager>>

exceptSummary == <<feedVars, fan, unlabel, resolve, create, lookup, batch, watch, rpc, manager>>

exceptFan == <<feedVars, summary, unlabel, resolve, create, lookup, batch, watch, rpc, manager>>

exceptUnlabel == <<feedVars, summary, fan, resolve, create, lookup, batch, watch, rpc, manager>>

exceptResolve == <<feedVars, summary, fan, unlabel, create, lookup, batch, watch, rpc, manager>>

exceptCreate == <<feedVars, summary, fan, unlabel, resolve, lookup, batch, watch, rpc, manager>>

exceptLookup == <<feedVars, summary, fan, unlabel, resolve, create, batch, watch, rpc, manager>>

exceptBatch == <<feedVars, summary, fan, unlabel, resolve, create, lookup, watch, rpc, manager>>

exceptWatch == <<feedVars, summary, fan, unlabel, resolve, create, lookup, batch, rpc, manager>>

exceptRpc == <<feedVars, summary, fan, unlabel, resolve, create, lookup, batch, watch, manager>>

exceptManager == <<feedVars, summary, fan, unlabel, resolve, create, lookup, batch, watch, rpc>>

(***************************************************************************)
(* Bounds of the model.                                                    *)
(***************************************************************************)
\* tasks and comments the backing service returns during one call, over all
\* cards
MaxFetched == 2
\* cards in one list of the summarised board
MaxListCards == 23
\* user ids in one resolveUsers call
MaxUserIds == 3
\* task names in one createCardWithTasks call
MaxTaskNames == 2
\* tasks created through createTask
MaxCreated == 2
\* tasks in one batchCreateTasks call
MaxBatch == 2

\* the clock of the stopwatch calls stops at this many milliseconds
MaxClock == 3000

(***************************************************************************)
(* Dates.  A timestamp of the backing service is an ISO-8601 string with   *)
(* its own UTC offset: Iso(h, off) is the wall-clock hour h written with   *)
(* offset +off hours.  null/undefined, "" and an unparsable string are the *)
(* other values a timestamp field can hold.  A Date is its time value in   *)
(* milliseconds, NaN for an Invalid Date.                                  *)
(***************************************************************************)
HourMs == 60 * 60 * 1000

NaN == -1

Iso(h, off) == [kind |-> "iso", h |-> h, off |-> off]

Null == [kind |-> "null", h |-> 0, off |-> 0]

EmptyString == [kind |-> "empty", h |-> 0, off |-> 0]

Garbage == [kind |-> "garbage", h |-> 0, off |-> 0]

\* JavaScript truthiness of a string | null | undefined
Truthy(s) == s.kind \notin {"null", "empty"}

\* new Date(str): the instant the string denotes, NaN when it does not parse
NewDate(s) == IF s.kind = "iso" THEN (s.h - s.off) * HourMs ELSE NaN

\* Date.prototype.getTime
GetTime(d) == d

\* date >= other on Dates: false as soon as one side is NaN
DateGeq(a, b) == a # NaN /\ b # NaN /\ a >= b

DateLeq(a, b) == a # NaN /\ b # NaN /\ a <= b

\* The hour the clock shows when the call starts (new Date()).
NowHour == 48

DayMs == 24 * 60 * 60 * 1000

\* date order of the strings themselves: wall-clock hour first, then offset
StringLeq(s, t) == s.h < t.h \/ (s.h = t.h /\ s.off <= t.off)

(***************************************************************************)
(* isWithinRange                                                           *)
(***************************************************************************)
isWithinRange_Exclusive(dateStr, f, t) ==
    IF ~Truthy(dateStr) THEN FALSE
    ELSE LET date == NewDate(dateStr)
         IN  date # NaN /\ f # NaN /\ t # NaN /\ date > f /\ date < t

isWithinRange(dateStr, f, t) ==
    IF ~Truthy(dateStr) THEN FALSE
    ELSE LET date == NewDate(dateStr)
         IN  DateGeq(date, f) /\ DateLeq(date, t)

(***************************************************************************)
(* truncateText: a text is a sequence of characters                        *)
(***************************************************************************)
Ellipsis == <<".", ".", ".">>

truncateText(text, maxLength) ==
    IF Len(text) <= maxLength THEN text
    ELSE SubSeq(text, 1, maxLength - 3) \o Ellipsis

(***************************************************************************)
(* The locals of getActivityFeed.  affectedCardsMap (a Map) and userIdsSet *)
(* (a Set) keep insertion order, so both are sequences without repeats.    *)
(***************************************************************************)
InitLocals ==
    [changes |-> <<>>, affectedCardsMap |-> <<>>, userIdsSet |-> <<>>,
     newCards |-> 0, updatedCards |-> 0, completedCards |-> 0,
     newComments |-> 0, newTasks |-> 0, completedTasks |-> 0,
     cardHasChanges |-> FALSE]

\* Map.prototype.set: a present key keeps its place and takes the new value
MapSet(m, key, value) ==
    IF \E i \in 1..Len(m) : m[i].cardId = key
    THEN [i \in 1..Len(m) |-> IF m[i].cardId = key THEN value ELSE m[i]]
    ELSE Append(m, value)

\* Set.prototype.add
SetAdd(s, x) == IF \E i \in 1..Len(s) : s[i] = x THEN s ELSE Append(s, x)

\* the card's own event: created, else completed or updated (lines 126-169)
CardEvent_NoElse(L, w, ctx, card) ==
    LET L0 == [L EXCEPT !.cardHasChanges = FALSE]
        L1 == IF isWithinRange(card.createdAt, w.from, w.to)
              THEN [L0 EXCEPT
                      !.changes = Append(@, [timestamp |-> card.createdAt,
                                             type |-> "card_created",
                                             boardId |-> ctx.boardId,
                                             listId |-> ctx.listId,
                                             cardId |-> card.id]),
                      !.newCards = @ + 1,
                      !.cardHasChanges = TRUE]
              ELSE L0
    IN  IF isWithinRange(card.updatedAt, w.from, w.to)
        THEN [L1 EXCEPT
                !.changes = Append(@, [timestamp |-> card.updatedAt,
                                       type |-> IF card.isCompleted
                                                THEN "card_completed"
                                                ELSE "card_updated",
                                       boardId |-> ctx.boardId,
                                       listId |-> ctx.listId,
                                       cardId |-> card.id]),
                !.completedCards = IF card.isCompleted THEN @ + 1 ELSE @,
                !.updatedCards = IF card.isCompleted THEN @ ELSE @ + 1,
                !.cardHasChanges = TRUE]
        ELSE L1

\* the card event with a completed card counted as an updated one
CardEvent_CountsUpdated(L, w, ctx, card) ==
    LET L0 == [L EXCEPT !.cardHasChanges = FALSE]
    IN  IF isWithinRange(card.createdAt, w.from, w.to)
        THEN [L0 EXCEPT
                !.changes = Append(@, [timestamp |-> card.createdAt,
                                       type |-> "card_created",
                                       boardId |-> ctx.boardId,
                                       listId |-> ctx.listId,
                                       cardId |-> card.id]),
                !.newCards = @ + 1,
                !.cardHasChanges = TRUE]
        ELSE IF isWithinRange(card.updatedAt, w.from, w.to)
        THEN IF card.isCompleted /\ Truthy(card.updatedAt)
             THEN [L0 EXCEPT
                     !.changes = Append(@, [timestamp |-> card.updatedAt,
                                            type |-> "card_completed",
                                            boardId |-> ctx.boardId,
                                            listId |-> ctx.listId,
                                            cardId |-> card.id]),
                     !.updatedCards = @ + 1,
                     !.cardHasChanges = TRUE]
             ELSE [L0 EXCEPT
                     !.changes = Append(@, [timestamp |-> card.updatedAt,
                                            type |-> "card_updated",
                                            boardId |-> ctx.boardId,
                                            listId |-> ctx.listId,
                                            cardId |-> card.id]),
                     !.updatedCards = @ + 1,
                     !.cardHasChanges = TRUE]
        ELSE L0

\* lines 127-163: the event of the card itself
CardEvent(L, w, ctx, card) ==
    LET L0 == [L EXCEPT !.cardHasChanges = FALSE]
    IN  IF isWithinRange(card.createdAt, w.from, w.to)
        THEN [L0 EXCEPT
                !.changes = Append(@, [timestamp |-> card.createdAt,
                                       type |-> "card_created",
                                       boardId |-> ctx.boardId,
                                       listId |-> ctx.listId,
                                       cardId |-> card.id]),
                !.newCards = @ + 1,
                !.cardHasChanges = TRUE]
        ELSE IF isWithinRange(card.updatedAt, w.from, w.to)
        THEN IF card.isCompleted /\ Truthy(card.updatedAt)
             THEN [L0 EXCEPT
                     !.changes = Append(@, [timestamp |-> card.updatedAt,
                                            type |-> "card_completed",
                                            boardId |-> ctx.boardId,
                                            listId |-> ctx.listId,
                                            cardId |-> card.id]),
                     !.completedCards = @ + 1,
                     !.cardHasChanges = TRUE]
             ELSE [L0 EXCEPT
                     !.changes = Append(@, [timestamp |-> card.updatedAt,
                                            type |-> "card_updated",
                                            boardId |-> ctx.boardId,
                                            listId |-> ctx.listId,
                                            cardId |-> card.id]),
                     !.updatedCards = @ + 1,
                     !.cardHasChanges = TRUE]
        ELSE L0

\* one iteration of the task loop (lines 174-198)
TaskEvent_NoElse(L, w, ctx, task) ==
    LET L1 == IF isWithinRange(task.createdAt, w.from, w.to)
              THEN [L EXCEPT
                      !.changes = Append(@, [timestamp |-> task.createdAt,
                                             type |-> "task_created",
                                             boardId |-> ctx.boardId,
                                             listId |-> ctx.listId,
                                             cardId |-> ctx.cardId,
                                             taskId |-> task.id]),
                      !.newTasks = @ + 1,
                      !.cardHasChanges = TRUE]
              ELSE L
    IN  IF task.isCompleted /\ isWithinRange(task.updatedAt, w.from, w.to)
        THEN [L1 EXCEPT
                !.changes = Append(@, [timestamp |-> task.updatedAt,
                                       type |-> "task_completed",
                                       boardId |-> ctx.boardId,
                                       listId |-> ctx.listId,
                                       cardId |-> ctx.cardId,
                                       taskId |-> task.id]),
                !.completedTasks = @ + 1,
                !.cardHasChanges = TRUE]
        ELSE L1

TaskEvent(L, w, ctx, task) ==
    IF isWithinRange(task.createdAt, w.from, w.to)
    THEN [L EXCEPT
            !.changes = Append(@, [timestamp |-> task.createdAt,
                                   type |-> "task_created",
                                   boardId |-> ctx.boardId,
                                   listId |-> ctx.listId,
                                   cardId |-> ctx.cardId,
                                   taskId |-> task.id]),
            !.newTasks = @ + 1,
            !.cardHasChanges = TRUE]
    ELSE IF task.isCompleted /\ isWithinRange(task.updatedAt, w.from, w.to)
    THEN [L EXCEPT
            !.changes = Append(@, [timestamp |-> task.updatedAt,
                                   type |-> "task_completed",
                                   boardId |-> ctx.boardId,
                                   listId |-> ctx.listId,
                                   cardId |-> ctx.cardId,
                                   taskId |-> task.id]),
            !.completedTasks = @ + 1,
            !.cardHasChanges = TRUE]
    ELSE L

RECURSIVE TaskLoop(_, _, _, _)
TaskLoop(L, w, ctx, tasks) ==
    IF tasks = <<>> THEN L
    ELSE TaskLoop(TaskEvent(L, w, ctx, Head(tasks)), w, ctx, Tail(tasks))

\* one iteration of the comment loop (lines 206-226)
CommentEvent_CapInclusive(L, w, ctx, comment) ==
    IF isWithinRange(comment.createdAt, w.from, w.to)
    THEN LET L1 == IF L.newComments <= w.maxComments
                   THEN [L EXCEPT !.changes =
                            Append(@, [timestamp |-> comment.createdAt,
                                       type |-> "comment_added",
                                       boardId |-> ctx.boardId,
                                       listId |-> ctx.listId,
                                       cardId |-> ctx.cardId,
                                       commentId |-> comment.id,
                                       userId |-> comment.userId,
                                       preview |-> truncateText(comment.text, 100)])]
                   ELSE L
             L2 == IF comment.userId # "null"
                   THEN [L1 EXCEPT !.userIdsSet = SetAdd(@, comment.userId)]
                   ELSE L1
         IN  [L2 EXCEPT !.newComments = @ + 1, !.cardHasChanges = TRUE]
    ELSE L

CommentEvent_CapStatistics(L, w, ctx, comment) ==
    IF isWithinRange(comment.createdAt, w.from, w.to) /\ L.newComments < w.maxComments
    THEN LET L1 == [L EXCEPT !.changes =
                            Append(@, [timestamp |-> comment.createdAt,
                                       type |-> "comment_added",
                                       boardId |-> ctx.boardId,
                                       listId |-> ctx.listId,
                                       cardId |-> ctx.cardId,
                                       commentId |-> comment.id,
                                       userId |-> comment.userId,
                                       preview |-> truncateText(comment.text, 100)])]
             L2 == IF comment.userId # "null"
                   THEN [L1 EXCEPT !.userIdsSet = SetAdd(@, comment.userId)]
                   ELSE L1
         IN  [L2 EXCEPT !.newComments = @ + 1, !.cardHasChanges = TRUE]
    ELSE L

CommentEvent(L, w, ctx, comment) ==
    IF isWithinRange(comment.createdAt, w.from, w.to)
    THEN LET L1 == IF L.newComments < w.maxComments
                   THEN [L EXCEPT !.changes =
                            Append(@, [timestamp |-> comment.createdAt,
                                       type |-> "comment_added",
                                       boardId |-> ctx.boardId,
                                       listId |-> ctx.listId,
                                       cardId |-> ctx.cardId,
                                       commentId |-> comment.id,
                                       userId |-> comment.userId,
                                       preview |-> truncateText(comment.text, 100)])]
                   ELSE L
             L2 == IF comment.userId # "null"
                   THEN [L1 EXCEPT !.userIdsSet = SetAdd(@, comment.userId)]
                   ELSE L1
         IN  [L2 EXCEPT !.newComments = @ + 1, !.cardHasChanges = TRUE]
    ELSE L

RECURSIVE CommentLoop(_, _, _, _)
CommentLoop(L, w, ctx, comments) ==
    IF comments = <<>> THEN L
    ELSE CommentLoop(CommentEvent(L, w, ctx, Head(comments)), w, ctx, Tail(comments))

\* lines 231-239
TrackAffected_Always(L, ctx, card) ==
    [L EXCEPT !.affectedCardsMap =
        MapSet(@, card.id, [cardId |-> card.id, cardName |-> card.name,
                            boardId |-> ctx.boardId, listId |-> ctx.listId])]

TrackAffected(L, ctx, card) ==
    IF L.cardHasChanges
    THEN [L EXCEPT !.affectedCardsMap =
            MapSet(@, card.id, [cardId |-> card.id, cardName |-> card.name,
                                boardId |-> ctx.boardId, listId |-> ctx.listId])]
    ELSE L

(***************************************************************************)
(* The final sort (line 245).  Array.prototype.sort is stable; a           *)
(* comparator result of NaN counts as 0.                                   *)
(***************************************************************************)
compareFn_ByString(a, b) ==
    IF a.timestamp = b.timestamp THEN 0
    ELSE IF StringLeq(a.timestamp, b.timestamp) THEN 1 ELSE -1

compareFn(a, b) ==
    LET x == GetTime(NewDate(b.timestamp))
        y == GetTime(NewDate(a.timestamp))
    IN  IF x = NaN \/ y = NaN THEN 0 ELSE x - y

RECURSIVE SortInsert_Unstable(_, _)
\* an insertion that puts an element before the elements it ties with
SortInsert_Unstable(e, s) ==
    IF s = <<>> THEN <<e>>
    ELSE IF compareFn(Head(s), e) < 0
         THEN <<Head(s)>> \o SortInsert_Unstable(e, Tail(s))
         ELSE <<e>> \o s

RECURSIVE SortInsert(_, _)
SortInsert(e, s) ==
    IF s = <<>> THEN <<e>>
    ELSE IF compareFn(Head(s), e) <= 0
         THEN <<Head(s)>> \o SortInsert(e, Tail(s))
         ELSE <<e>> \o s

RECURSIVE Sort(_)
Sort(s) ==
    IF s = <<>> THEN <<>>
    ELSE SortInsert(s[Len(s)], Sort(SubSeq(s, 1, Len(s) - 1)))

\* Date.prototype.toISOString of a valid Date: the instant written in UTC
toISOString(d) == Iso(d \div HourMs, 0)

(***************************************************************************)
(* The accessors.  getLists, getCards, getTasks and getComments catch a    *)
(* request error and return []; getBoards lets it through.                 *)
(***************************************************************************)
getBoardsThrows(response) == ~response.ok

getBoards(response) == response.items

getLists(response) == IF response.ok THEN response.items ELSE <<>>

getCards(response) == IF response.ok THEN response.items ELSE <<>>

getTasks(response) == IF response.ok THEN response.items ELSE <<>>

getComments(response) == IF response.ok THEN response.items ELSE <<>>

(***************************************************************************)
(* The body of the card loop as a function of what the accessors returned, *)
(* and the whole traversal as the fold of it over the visited cards.       *)
(***************************************************************************)
ProcessCard(L, w, v) ==
    LET ctx == [boardId |-> v.boardId, listId |-> v.listId, cardId |-> v.card.id]
        L1 == CardEvent(L, w, ctx, v.card)
        L2 == TaskLoop(L1, w, ctx, getTasks(v.tasks))
        L3 == CommentLoop(L2, w, ctx, getComments(v.comments))
    IN  TrackAffected(L3, ctx, v.card)

RECURSIVE Traverse(_, _)
Traverse(vs, w) ==
    IF vs = <<>> THEN InitLocals
    ELSE ProcessCard(Traverse(SubSeq(vs, 1, Len(vs) - 1), w), w, vs[Len(vs)])

(***************************************************************************)
(* The backing service.  The project holds boards b1 (lists l1, l2) and b2 *)
(* (list l3); l1 and l3 hold one card each, l2 is empty.  What a card, its *)
(* tasks and its comments look like is chosen when they are fetched.  A    *)
(* response is ok with its items, or a request error.                      *)
(***************************************************************************)
Ok(items) == [ok |-> TRUE, asked |-> TRUE, items |-> items]

RequestError == [ok |-> FALSE, asked |-> TRUE, items |-> <<>>]

NotAsked == [ok |-> FALSE, asked |-> FALSE, items |-> <<>>]

ProjectBoards == <<"b1", "b2">>

BoardLists(boardId) == IF boardId = "b1" THEN <<"l1", "l2">> ELSE <<"l3">>

ListCards(listId) ==
    IF listId = "l1" THEN <<"c1">> ELSE IF listId = "l3" THEN <<"c2">> ELSE <<>>

\* timestamps the entities carry: TOld is 40 hours before the clock, TFrom is
\* the default window's start written with offset +10:00, TMid lies inside it,
\* TTo is the clock's hour written with offset -02:00
TOld == Iso(8, 0)

TFrom == Iso(34, 10)

TMid == Iso(33, 0)

TTo == Iso(46, -2)

CardShapes ==
    { [createdAt |-> TFrom, updatedAt |-> TFrom, isCompleted |-> FALSE],
      [createdAt |-> TMid,  updatedAt |-> TTo,   isCompleted |-> TRUE],
      [createdAt |-> TOld,  updatedAt |-> TTo,   isCompleted |-> TRUE],
      [createdAt |-> TOld,  updatedAt |-> TMid,  isCompleted |-> FALSE],
      [createdAt |-> TOld,  updatedAt |-> Null,  isCompleted |-> FALSE] }

TaskShapes ==
    { [createdAt |-> TMid, updatedAt |-> TTo,   isCompleted |-> TRUE],
      [createdAt |-> TOld, updatedAt |-> TTo,   isCompleted |-> TRUE],
      [createdAt |-> TOld, updatedAt |-> TMid,  isCompleted |-> FALSE] }

NoUser == "null"

CommentShapes ==
    { [createdAt |-> TMid, userId |-> "u1"],
      [createdAt |-> TTo,  userId |-> "u2"] }

CommentText == <<"o", "k">>

\* the sequences of at most n elements of S
SeqsUpTo(S, n) == UNION { [1..k -> S] : k \in 0..n }

Max0(n) == IF n < 0 THEN 0 ELSE n

RECURSIVE Fetched(_)
\* how many tasks and comments the responses of the visited cards held
Fetched(v) ==
    IF v = <<>> THEN 0
    ELSE Fetched(SubSeq(v, 1, Len(v) - 1))
         + Len(v[Len(v)].tasks.items) + Len(v[Len(v)].comments.items)

BoardsResponses == { Ok(ProjectBoards), RequestError }

ListsResponses(boardId) == { Ok(BoardLists(boardId)), RequestError }

CardsResponses(listId) ==
    { Ok([i \in 1..Len(sh) |->
            [id |-> ListCards(listId)[i], listId |-> listId, name |-> "card",
             createdAt |-> sh[i].createdAt, updatedAt |-> sh[i].updatedAt,
             isCompleted |-> sh[i].isCompleted]])
        : sh \in [1..Len(ListCards(listId)) -> CardShapes] }
    \cup { RequestError }

TasksOf(cardId, n) ==
    { [i \in 1..Len(sh) |->
            [id |-> <<cardId, i>>, cardId |-> cardId,
             createdAt |-> sh[i].createdAt, updatedAt |-> sh[i].updatedAt,
             isCompleted |-> sh[i].isCompleted]]
        : sh \in SeqsUpTo(TaskShapes, Max0(n)) }

TasksResponses(cardId, seen) ==
    { Ok(t) : t \in TasksOf(cardId, MaxFetched - seen) } \cup { RequestError }

CommentsOf(cardId, n) ==
    { [i \in 1..Len(sh) |->
            [id |-> <<cardId, i>>, cardId |-> cardId, text |-> CommentText,
             createdAt |-> sh[i].createdAt, userId |-> sh[i].userId]]
        : sh \in SeqsUpTo(CommentShapes, Max0(n)) }

CommentsResponses(cardId, seen) ==
    { Ok(c) : c \in CommentsOf(cardId, MaxFetched - seen) }
    \cup { RequestError }

(***************************************************************************)
(* getActivityFeed, one step per awaited request.                          *)
(***************************************************************************)
DefaultMaxComments == 20

Given(n) == [given |-> TRUE, value |-> n]

NotGiven == [given |-> FALSE, value |-> 0]

ParamChoices ==
    { [since |-> Null,        until |-> Null,    maxComments |-> Given(1)],
      [since |-> TFrom,       until |-> TMid,    maxComments |-> Given(-1)],
      [since |-> EmptyString, until |-> Garbage, maxComments |-> NotGiven] }

\* line 88: const { projectId, maxComments = 20 } = params
MaxCommentsOf(p) ==
    IF p.maxComments.given THEN p.maxComments.value ELSE DefaultMaxComments

Now == NowHour * HourMs

\* lines 91-95
FromOf(p) == IF Truthy(p.since) THEN NewDate(p.since) ELSE Now - DayMs

ToOf(p) == IF Truthy(p.until) THEN NewDate(p.until) ELSE Now

Window == [from |-> from, to |-> to, maxComments |-> MaxCommentsOf(params)]

NoResult == [kind |-> "none"]

ErrorPrefix == "Failed to get activity feed: "

\* lines 266-270: the catch of the outer try
Thrown_Partial(message) ==
    [kind |-> "value", error |-> <<ErrorPrefix, message>>,
     changes |-> locals.changes]

Thrown(message) == [kind |-> "error", message |-> <<ErrorPrefix, message>>]

Ctx == [boardId |-> boards[bi], listId |-> lists[li], cardId |-> cards[ci].id]

AfterBoard ==
    IF bi < Len(boards)
    THEN [pc |-> "getLists", bi |-> bi + 1, li |-> 0, ci |-> 0]
    ELSE [pc |-> "sort", bi |-> bi, li |-> 0, ci |-> 0]

AfterList ==
    IF li < Len(lists)
    THEN [pc |-> "getCards", bi |-> bi, li |-> li + 1, ci |-> 0]
    ELSE AfterBoard

AfterCard ==
    IF ci < Len(cards)
    THEN [pc |-> "card", bi |-> bi, li |-> li, ci |-> ci + 1]
    ELSE AfterList

Request(kind, id) == [kind |-> kind, id |-> id]

\* both requests of a card issued together
Awaiting_Together(p, bs, b, ls, l, cs, c) ==
    CASE p = "getBoards"   -> { Request("getBoards", "project") }
      [] p = "getLists"    -> { Request("getLists", bs[b]) }
      [] p = "getCards"    -> { Request("getCards", ls[l]) }
      [] p = "getTasks"    -> { Request("getTasks", cs[c].id),
                                Request("getComments", cs[c].id) }
      [] p = "getComments" -> { Request("getComments", cs[c].id) }
      [] OTHER             -> {}

\* lines 111, 118, 123, 173, 205: the request the call awaits at position p
Awaiting(p, bs, b, ls, l, cs, c) ==
    CASE p = "getBoards"   -> { Request("getBoards", "project") }
      [] p = "getLists"    -> { Request("getLists", bs[b]) }
      [] p = "getCards"    -> { Request("getCards", ls[l]) }
      [] p = "getTasks"    -> { Request("getTasks", cs[c].id) }
      [] p = "getComments" -> { Request("getComments", cs[c].id) }
      [] OTHER             -> {}

Goto(next) == pc' = next.pc /\ bi' = next.bi /\ li' = next.li /\ ci' = next.ci

(***************************************************************************)
(* Numbers.  A JavaScript number is an IEEE-754 double.  A non-negative    *)
(* double is kept as [m, e] and stands for m * 2^e: m is a natural of at   *)
(* most 53 significant bits, written little-endian in five limbs, the     *)
(* first four of 13 bits and the last holding bit 52 and above.            *)
(***************************************************************************)
Limb == 2^13

RECURSIVE BitLength(_)
BitLength(n) == IF n = 0 THEN 0 ELSE 1 + BitLength(n \div 2)

RECURSIVE AddSmall(_, _)
\* the limbs of m + c
AddSmall(m, c) ==
    IF Len(m) = 1 THEN <<m[1] + c>>
    ELSE <<(m[1] + c) % Limb>> \o AddSmall(Tail(m), (m[1] + c) \div Limb)

RECURSIVE MulSmall(_, _, _)
\* the limbs of m * k + c
MulSmall(m, k, c) ==
    IF Len(m) = 1 THEN <<m[1] * k + c>>
    ELSE <<(m[1] * k + c) % Limb>>
         \o MulSmall(Tail(m), k, (m[1] * k + c) \div Limb)

\* the double nearest to m * 2^e, ties to even: the bits of m beyond its 53
\* most significant ones are rounded away (fewer than 13 of them)
RoundToDouble(m, e) ==
    LET extra == IF m[5] = 0 THEN 0 ELSE BitLength(m[5]) - 1
        unit  == 2^extra
        lost  == m[1] % unit
        kept  == [m EXCEPT ![1] = @ - lost]
        odd   == (m[1] \div unit) % 2 = 1
        up    == 2 * lost > unit \/ (2 * lost = unit /\ odd)
    IN  [m |-> IF up THEN AddSmall(kept, unit) ELSE kept, e |-> e]

RECURSIVE Shift(_, _)
\* the least s with a * 2^s >= b, for 0 < a <= b
Shift(a, b) == IF a >= b THEN 0 ELSE 1 + Shift(2 * a, b)

\* a / b on doubles that hold the naturals 0 <= a <= b, b > 0: 53 bits of
\* the quotient by long division, rounded to nearest, ties to even
FDiv(a, b) ==
    IF a = 0 THEN [m |-> <<0, 0, 0, 0, 0>>, e |-> -52]
    ELSE LET s  == Shift(a, b)
             n  == a * 2^s
             r0 == n % b
             r1 == (r0 * Limb) % b
             r2 == (r1 * Limb) % b
             r3 == (r2 * Limb) % b
             r4 == (r3 * Limb) % b
             m  == << (r3 * Limb) \div b, (r2 * Limb) \div b,
                      (r1 * Limb) \div b, (r0 * Limb) \div b, n \div b >>
             up == 2 * r4 > b \/ (2 * r4 = b /\ m[1] % 2 = 1)
         IN  [m |-> IF up THEN AddSmall(m, 1) ELSE m, e |-> -(52 + s)]

\* x * k on doubles, k a natural below 2^7
FMul(x, k) == RoundToDouble(MulSmall(x.m, k, 0), x.e)

\* Math.round of a double 0 <= x < 2^12 with -64 <= x.e <= -52: the nearest
\* integer, a tie going up
MathRound(x) ==
    LET f     == -x.e - 52
        whole == x.m[5] \div 2^f
        half  == IF f = 0 THEN x.m[4] \div (Limb \div 2)
                          ELSE (x.m[5] \div 2^(f - 1)) % 2
    IN  whole + half

(***************************************************************************)
(* Strings of getBoardSummary.  A name is its characters, or null; what a  *)
(* card may lack is undefined.                                             *)
(***************************************************************************)
Undefined == [kind |-> "undefined"]

Str(chars) == [kind |-> "string", chars |-> chars]

NullName == [kind |-> "null", chars |-> <<>>]

Array(items) == [kind |-> "array", items |-> items]

UpperCase == << "A", "B", "C", "D", "E", "F", "G", "H", "I", "J", "K", "L", "M",
                "N", "O", "P", "Q", "R", "S", "T", "U", "V", "W", "X", "Y", "Z" >>

LowerCase == << "a", "b", "c", "d", "e", "f", "g", "h", "i", "j", "k", "l", "m",
                "n", "o", "p", "q", "r", "s", "t", "u", "v", "w", "x", "y", "z" >>

\* the lower-case letter of each upper-case letter
LowerOf ==
    [c \in { UpperCase[k] : k \in 1..Len(UpperCase) } |->
        LowerCase[CHOOSE k \in 1..Len(UpperCase) : UpperCase[k] = c]]

\* String.prototype.toLowerCase
toLowerCase(s) ==
    Str([i \in 1..Len(s.chars) |->
            IF s.chars[i] \in DOMAIN LowerOf THEN LowerOf[s.chars[i]]
                                             ELSE s.chars[i]])

\* x.name?.toLowerCase() === wanted
NameIs(x, wanted) == x.name.kind = "string" /\ toLowerCase(x.name) = Str(wanted)

backlog == << "b", "a", "c", "k", "l", "o", "g" >>

inProgress == << "i", "n", " ", "p", "r", "o", "g", "r", "e", "s", "s" >>

testing == << "t", "e", "s", "t", "i", "n", "g" >>

done == << "d", "o", "n", "e" >>

urgent == << "u", "r", "g", "e", "n", "t" >>

bug == << "b", "u", "g" >>

(***************************************************************************)
(* The backing service as getBoardSummary sees it: one board of at most    *)
(* two lists, each of at most MaxListCards cards; the cards of one list    *)
(* are alike.                                                              *)
(***************************************************************************)
SummaryBoard == "b1"

BoardResponses(boardId) == { [id |-> boardId, name |-> "board"], Null }

SummaryListNames ==
    { << Str(<<"D", "o", "n", "e">>), Str(<<"B", "a", "c", "k", "l", "o", "g">>) >>,
      << Str(<<"D", "O", "N", "E">>), NullName >>,
      << Str(<<"T", "e", "s", "t", "i", "n", "g">>),
         Str(<<"I", "n", " ", "P", "r", "o", "g", "r", "e", "s", "s">>) >>,
      << Str(<<"d", "o", "n", "e">>), Str(<<"D", "o", "n", "e">>) >>,
      << Str(<<"i", "n", " ", "p", "r", "o", "g", "r", "e", "s", "s">>),
         Str(<<"B", "A", "C", "K", "L", "O", "G">>) >>,
      << Str(<<"T", "o", "d", "o">>) >> }

SummaryListsResponses ==
    { Ok([i \in 1..Len(names) |-> [id |-> <<"l", i>>, name |-> names[i]]])
        : names \in SummaryListNames }
    \cup { Ok(<<>>), RequestError }

SummaryTask(isCompleted) == [isCompleted |-> isCompleted]

\* a card is what PlankaCardSchema describes: it has no labelIds field; its
\* labels are the card-label records the service holds for it
SummaryCardShapes ==
    { [labels |-> <<>>, tasks |-> RequestError, comments |-> Ok(<<>>)],
      [labels   |-> <<"lb1", "lb3">>,
       tasks    |-> Ok(<< SummaryTask(TRUE), SummaryTask(FALSE), SummaryTask(TRUE) >>),
       comments |-> Ok(<< [text |-> CommentText] >>)] }

\* what the service answers to the requests made for one list: to the cards
\* request n cards of one shape, to the tasks and comments requests of each of
\* them what the shape says
ListAnswers(listId) ==
    { [cards    |-> Ok([i \in 1..n |-> [id |-> <<listId, i>>,
                                        labelIds |-> Undefined]]),
       cardLabels |-> [k \in 1..(n * Len(sh.labels)) |->
                         [cardId  |-> <<listId, 1 + ((k - 1) \div Len(sh.labels))>>,
                          labelId |-> sh.labels[1 + ((k - 1) % Len(sh.labels))]]],
       tasks    |-> sh.tasks,
       comments |-> sh.comments]
        : n \in 0..MaxListCards, sh \in SummaryCardShapes }
    \cup { [cards |-> RequestError, cardLabels |-> <<>>, tasks |-> RequestError,
            comments |-> RequestError] }

LabelsResponses ==
    { Ok(<< [id |-> "lb1", name |-> Str(<<"U", "r", "g", "e", "n", "t">>)],
            [id |-> "lb2", name |-> NullName],
            [id |-> "lb3", name |-> Str(<<"B", "U", "G">>)] >>),
      RequestError }

getLabels(response) == IF response.ok THEN response.items ELSE <<>>

getBoard(response) == response

(***************************************************************************)
(* getBoardSummary.  summary is the frame of the call: where it stands,    *)
(* its parameters, the board, allLists, listsWithCards as far as the       *)
(* callbacks of Promise.all have resolved, and what the caller got;        *)
(* cardLabels are the card-label records the service holds for the cards   *)
(* it has answered with.                                                   *)
(***************************************************************************)
SummaryParamChoices ==
    { [boardId |-> SummaryBoard, includeTaskDetails |-> FALSE,
       includeComments |-> FALSE],
      [boardId |-> SummaryBoard, includeTaskDetails |-> TRUE,
       includeComments |-> TRUE] }

Pending == [kind |-> "pending"]

SummaryIdle ==
    [pc |-> "idle", params |-> [boardId |-> SummaryBoard,
                                includeTaskDetails |-> FALSE,
                                includeComments |-> FALSE],
     board |-> Null, allLists |-> <<>>, listsWithCards |-> <<>>,
     cardLabels |-> <<>>, result |-> NoResult]

\* lines 99-101 and 184-186: Math.round(a / b * 100), 0 when b is 0
Percentage(a, b) == IF b > 0 THEN MathRound(FMul(FDiv(a, b), 100)) ELSE 0

\* lines 82-117: the callback of listCards.map
CardWithDetails(p, card, answers) ==
    LET taskDetails    == IF p.includeTaskDetails THEN getTasks(answers.tasks)
                                                  ELSE <<>>
        cardComments   == IF p.includeComments THEN getComments(answers.comments)
                                               ELSE <<>>
        completedTasks == Len(SelectSeq(taskDetails, LAMBDA t : t.isCompleted))
        totalTasks     == Len(taskDetails)
    IN  [id       |-> card.id,
         labelIds |-> card.labelIds,
         tasks    |-> IF p.includeTaskDetails
                      THEN [kind |-> "object", items |-> taskDetails,
                            total |-> totalTasks, completed |-> completedTasks,
                            completionPercentage |->
                                Percentage(completedTasks, totalTasks)]
                      ELSE Undefined,
         comments |-> IF p.includeComments THEN Array(cardComments) ELSE Undefined]

\* lines 77-125: the callback of allLists.map
ListWithCards(p, list, answers) ==
    LET listCards        == getCards(answers.cards)
        cardsWithDetails == [i \in 1..Len(listCards) |->
                                CardWithDetails(p, listCards[i], answers)]
    IN  [kind |-> "list", id |-> list.id, name |-> list.name,
         cards |-> cardsWithDetails, cardCount |-> Len(cardsWithDetails)]

RECURSIVE Sum(_)
\* lines 132-135: reduce((sum, list) => sum + list.cardCount, 0)
Sum(ls) == IF ls = <<>> THEN 0 ELSE Sum(SubSeq(ls, 1, Len(ls) - 1)) + ls[Len(ls)].cardCount

\* find with the names compared as they are written
Find_CaseSensitive(ls, wanted) ==
    IF \E i \in 1..Len(ls) : ls[i].name = Str(wanted)
    THEN CHOOSE i \in 1..Len(ls) :
            ls[i].name = Str(wanted) /\ \A j \in 1..(i - 1) : ls[j].name # Str(wanted)
    ELSE 0

\* lines 138-149: Array.prototype.find on the name, 0 for undefined
Find(ls, wanted) ==
    IF \E i \in 1..Len(ls) : NameIs(ls[i], wanted)
    THEN CHOOSE i \in 1..Len(ls) :
            NameIs(ls[i], wanted) /\ \A j \in 1..(i - 1) : ~NameIs(ls[j], wanted)
    ELSE 0

\* found?.cardCount || 0
CardCount(ls, found) == IF found = 0 THEN 0 ELSE ls[found].cardCount

RECURSIVE FlatCards(_)
\* flatMap(list => list.cards)
FlatCards(ls) == IF ls = <<>> THEN <<>> ELSE ls[1].cards \o FlatCards(Tail(ls))

\* lines 152-170: the filter of urgentCards and bugCards
HasLabel(card, boardLabels, wanted) ==
    /\ card.labelIds # Undefined
    /\ \E k \in 1..Len(card.labelIds.items) :
          \E n \in 1..Len(boardLabels) :
              /\ boardLabels[n].id = card.labelIds.items[k]
              /\ NameIs(boardLabels[n], wanted)

\* the same suggestions with Backlog tested first
getNextActionSuggestion_BacklogFirst(backlogCount, inProgressCount, testingCount) ==
    IF backlogCount > 0 THEN "Start working on a card from Backlog"
    ELSE IF testingCount > 0 THEN "Review cards in Testing that need feedback"
    ELSE IF inProgressCount > 0 THEN "Continue working on cards in In Progress"
    ELSE "All tasks complete! Create new cards or projects"

\* lines 213-227
getNextActionSuggestion(backlogCount, inProgressCount, testingCount) ==
    IF testingCount > 0 THEN "Review cards in Testing that need feedback"
    ELSE IF inProgressCount > 0 THEN "Continue working on cards in In Progress"
    ELSE IF backlogCount > 0 THEN "Start working on a card from Backlog"
    ELSE "All tasks complete! Create new cards or projects"

\* lines 131-198
Summarise(board, listsWithCards, boardLabels) ==
    LET totalCards     == Sum(listsWithCards)
        backlogList    == Find(listsWithCards, backlog)
        inProgressList == Find(listsWithCards, inProgress)
        testingList    == Find(listsWithCards, testing)
        doneList       == Find(listsWithCards, done)
        allCards       == FlatCards(listsWithCards)
        urgentCards    == Len(SelectSeq(allCards,
                                LAMBDA c : HasLabel(c, boardLabels, urgent)))
        bugCards       == Len(SelectSeq(allCards,
                                LAMBDA c : HasLabel(c, boardLabels, bug)))
    IN  [kind   |-> "value",
         board  |-> board,
         lists  |-> listsWithCards,
         labels |-> boardLabels,
         stats  |->
            [totalCards      |-> totalCards,
             backlogCount    |-> CardCount(listsWithCards, backlogList),
             inProgressCount |-> CardCount(listsWithCards, inProgressList),
             testingCount    |-> CardCount(listsWithCards, testingList),
             doneCount       |-> CardCount(listsWithCards, doneList),
             urgentCount     |-> urgentCards,
             bugCount        |-> bugCards,
             completionPercentage |->
                Percentage(CardCount(listsWithCards, doneList), totalCards)],
         workflowState |->
            [hasCardsInBacklog  |-> CardCount(listsWithCards, backlogList) > 0,
             hasCardsInProgress |-> CardCount(listsWithCards, inProgressList) > 0,
             hasCardsInTesting  |-> CardCount(listsWithCards, testingList) > 0,
             nextActionSuggestion |->
                getNextActionSuggestion(CardCount(listsWithCards, backlogList),
                                        CardCount(listsWithCards, inProgressList),
                                        CardCount(listsWithCards, testingList))]]

\* line 69
NotFound(boardId) ==
    [kind |-> "error", message |-> <<"Board with ID ", boardId, " not found">>]

(***************************************************************************)
(* getBoardSummary request by request.  fan is the frame of a call whose   *)
(* requests settle one at a time: outstanding holds the requests that were *)
(* issued and have not settled, responses what the settled ones answered,  *)
(* resolved the lists in the order in which the callbacks of allLists.map  *)
(* resolved.  The board has two lists, of two cards and of one card.       *)
(***************************************************************************)
FanLists ==
    << [id |-> "l1", name |-> Str(<<"D", "o", "n", "e">>)],
       [id |-> "l2", name |-> Str(<<"B", "a", "c", "k", "l", "o", "g">>)] >>

FanCards(listId) ==
    IF listId = "l1"
    THEN << [id |-> "c1", labelIds |-> Undefined],
            [id |-> "c2", labelIds |-> Undefined] >>
    ELSE << [id |-> "c3", labelIds |-> Undefined] >>

FanListsResponses == { Ok(FanLists), RequestError }

FanCardsResponses(listId) == { Ok(FanCards(listId)), RequestError }

FanTasksResponses == { Ok(<< SummaryTask(TRUE) >>), RequestError }

FanCommentsResponses == { Ok(<< [text |-> CommentText] >>), RequestError }

FanParamChoices ==
    { [boardId |-> SummaryBoard, includeTaskDetails |-> FALSE,
       includeComments |-> FALSE],
      [boardId |-> SummaryBoard, includeTaskDetails |-> FALSE,
       includeComments |-> TRUE],
      [boardId |-> SummaryBoard, includeTaskDetails |-> TRUE,
       includeComments |-> TRUE] }

FanIdle ==
    [pc |-> "idle", params |-> [boardId |-> SummaryBoard,
                                includeTaskDetails |-> FALSE,
                                includeComments |-> FALSE],
     outstanding |-> {}, responses |-> <<>>, resolved |-> <<>>,
     result |-> NoResult]

Settled(f, r) == r \in DOMAIN f.responses

\* line 66 and line 73: what the accessors gave once their request settled
FanBoardOf(f) == getBoard(f.responses[Request("getBoard", f.params.boardId)])

FanAllLists(f) == getLists(f.responses[Request("getLists", f.params.boardId)])

FanListCards(f, list) == getCards(f.responses[Request("getCards", list.id)])

\* lines 83-92: the requests the callback of a card makes, in its order
CardRequests(p, card) ==
    (IF p.includeTaskDetails THEN << Request("getTasks", card.id) >> ELSE <<>>)
    \o (IF p.includeComments THEN << Request("getComments", card.id) >> ELSE <<>>)

\* the callback of a card has resolved: all its requests settled
CardResolved(f, card) ==
    \A k \in 1..Len(CardRequests(f.params, card)) :
        Settled(f, CardRequests(f.params, card)[k])

\* lines 78-124: the callback of a list has resolved: its cards are known and
\* Promise.all over their callbacks has resolved
ListResolved(f, list) ==
    /\ Settled(f, Request("getCards", list.id))
    /\ \A k \in 1..Len(FanListCards(f, list)) :
          CardResolved(f, FanListCards(f, list)[k])

\* lines 76-126: Promise.all over the callbacks of the lists has resolved
AllResolved(f) ==
    \A i \in 1..Len(FanAllLists(f)) : ListResolved(f, FanAllLists(f)[i])

\* line 73 issued whether or not the board was found
AfterGetBoard_Eager(f, board) ==
    { Request("getLists", f.params.boardId) }

\* lines 68-73: the request that follows getBoard
AfterGetBoard(f, board) ==
    IF board = Null THEN {} ELSE { Request("getLists", f.params.boardId) }

\* lines 76-78, 129: every callback of allLists.map runs to its first await
AfterGetLists(f, allLists) ==
    IF allLists = <<>>
    THEN { Request("getLabels", f.params.boardId) }
    ELSE { Request("getCards", allLists[i].id) : i \in 1..Len(allLists) }

\* lines 81-92: every callback of listCards.map runs to its first await
AfterGetCards(f, listCards) ==
    { CardRequests(f.params, listCards[k])[1] :
        k \in { j \in 1..Len(listCards) : CardRequests(f.params, listCards[j]) # <<>> } }

\* lines 88-92: after the tasks of a card, its comments
AfterGetTasks(f, cardId) ==
    IF f.params.includeComments THEN { Request("getComments", cardId) } ELSE {}

\* line 129: the labels are requested once every list has resolved
ThenLabels(f) ==
    IF AllResolved(f)
    THEN [f EXCEPT !.outstanding = { Request("getLabels", f.params.boardId) }]
    ELSE f

\* the frame after request r settled with response and issued the requests
\* next; a list whose callback resolves by it is appended to resolved
Settle(f, r, response, next) ==
    LET g == [f EXCEPT !.responses = (r :> response) @@ f.responses,
                       !.outstanding = (f.outstanding \ {r}) \cup next]
        now == IF Settled(g, Request("getLists", f.params.boardId))
               THEN { i \in 1..Len(FanAllLists(g)) :
                        /\ ListResolved(g, FanAllLists(g)[i])
                        /\ \A k \in 1..Len(f.resolved) : f.resolved[k] # i }
               ELSE {}
    IN  [g EXCEPT !.resolved =
            IF now = {} THEN f.resolved
            ELSE Append(f.resolved, CHOOSE i \in now : \A j \in now : i <= j)]

\* lines 82-124 for one list, from what its requests answered
FanListWithCards(f, list) ==
    LET listCards == FanListCards(f, list)
        answersOf(card) ==
            [tasks    |-> IF f.params.includeTaskDetails
                          THEN f.responses[Request("getTasks", card.id)]
                          ELSE NotAsked,
             comments |-> IF f.params.includeComments
                          THEN f.responses[Request("getComments", card.id)]
                          ELSE NotAsked]
        cardsWithDetails ==
            [k \in 1..Len(listCards) |->
                CardWithDetails(f.params, listCards[k], answersOf(listCards[k]))]
    IN  [kind |-> "list", id |-> list.id, name |-> list.name,
         cards |-> cardsWithDetails, cardCount |-> Len(cardsWithDetails)]

\* the lists in the order in which their callbacks resolved
ListsWithCards_AsResolved(f) ==
    [k \in 1..Len(f.resolved) |-> FanListWithCards(f, FanAllLists(f)[f.resolved[k]])]

\* lines 76-126: Promise.all gives the lists in the order of allLists
ListsWithCards(f) ==
    [i \in 1..Len(FanAllLists(f)) |-> FanListWithCards(f, FanAllLists(f)[i])]

\* lines 61-66: a caller starts a call; getBoard is requested
FanCall ==
    /\ fan.pc \in {"idle", "returned", "thrown"}
    /\ \E p \in FanParamChoices :
          fan' = [FanIdle EXCEPT !.pc = "running", !.params = p,
                                 !.outstanding = { Request("getBoard", p.boardId) }]
    /\ UNCHANGED exceptFan

\* lines 66-73, and the rethrow of lines 199-202
FanGetBoard ==
    /\ fan.pc = "running"
    /\ \E r \in fan.outstanding :
          /\ r.kind = "getBoard"
          /\ \E response \in BoardResponses(r.id) :
                LET board == getBoard(response)
                    f     == Settle(fan, r, response, AfterGetBoard(fan, board))
                IN  fan' = IF board = Null
                           THEN [f EXCEPT !.pc = "thrown", !.result = NotFound(r.id)]
                           ELSE f
    /\ UNCHANGED exceptFan

\* lines 73-78
FanGetLists ==
    /\ fan.pc = "running"
    /\ \E r \in fan.outstanding :
          /\ r.kind = "getLists"
          /\ \E response \in FanListsResponses :
                fan' = Settle(fan, r, response,
                              AfterGetLists(fan, getLists(response)))
    /\ UNCHANGED exceptFan

\* lines 78-92, and line 129 when it was the last callback to resolve
FanGetCards ==
    /\ fan.pc = "running"
    /\ \E r \in fan.outstanding :
          /\ r.kind = "getCards"
          /\ \E response \in FanCardsResponses(r.id) :
                fan' = ThenLabels(Settle(fan, r, response,
                                         AfterGetCards(fan, getCards(response))))
    /\ UNCHANGED exceptFan

\* lines 85-92, and line 129 when it was the last callback to resolve
FanGetTasks ==
    /\ fan.pc = "running"
    /\ \E r \in fan.outstanding :
          /\ r.kind = "getTasks"
          /\ \E response \in FanTasksResponses :
                fan' = ThenLabels(Settle(fan, r, response, AfterGetTasks(fan, r.id)))
    /\ UNCHANGED exceptFan

\* lines 91-126, and line 129 when it was the last callback to resolve
FanGetComments ==
    /\ fan.pc = "running"
    /\ \E r \in fan.outstanding :
          /\ r.kind = "getComments"
          /\ \E response \in FanCommentsResponses :
                fan' = ThenLabels(Settle(fan, r, response, {}))
    /\ UNCHANGED exceptFan

\* lines 129-198
FanGetLabels ==
    /\ fan.pc = "running"
    /\ \E r \in fan.outstanding :
          /\ r.kind = "getLabels"
          /\ \E response \in LabelsResponses :
                LET f == Settle(fan, r, response, {})
                IN  fan' = [f EXCEPT
                              !.pc = "returned",
                              !.result = Summarise(FanBoardOf(f), ListsWithCards(f),
                                                   getLabels(response))]
    /\ UNCHANGED exceptFan

NextFan == FanCall \/ FanGetBoard \/ FanGetLists \/ FanGetCards \/ FanGetTasks
              \/ FanGetComments \/ FanGetLabels

(***************************************************************************)
(* removeLabelFromCard.  unlabel is the frame of the call, together with   *)
(* the card-label table of the backing service: cardLabels is what the     *)
(* service holds, requests the requests the call has issued, failed        *)
(* whether one of them was rejected, and previous the call that came just  *)
(* before this one.                                                        *)
(***************************************************************************)
\* the card-label associations the service starts with: at most one per pair
ServiceCardLabels ==
    << [id |-> "cl1", cardId |-> "c1", labelId |-> "lb1"],
       [id |-> "cl2", cardId |-> "c1", labelId |-> "lb2"],
       [id |-> "cl3", cardId |-> "c2", labelId |-> "lb1"] >>

UnlabelCards == {"c1", "c2"}

UnlabelLabels == {"lb1", "lb2"}

\* GET /api/cards/{cardId}: the card with its included.cardLabels, or a failure
CardResponses(table, cardId) ==
    { Ok(SelectSeq(table, LAMBDA cl : cl.cardId = cardId)), RequestError }

\* DELETE /api/card-labels/{id} when it succeeds
DeleteCardLabel(table, id) == SelectSeq(table, LAMBDA cl : cl.id # id)

Get(path) == [method |-> "GET", path |-> path]

Delete(path) == [method |-> "DELETE", path |-> path]

NoCall == [kind |-> "none"]

UnlabelIdle ==
    [pc |-> "idle", cardId |-> "c1", labelId |-> "lb1",
     cardLabels |-> ServiceCardLabels, cardLabel |-> Undefined,
     requests |-> <<>>, failed |-> FALSE, result |-> NoResult,
     previous |-> NoCall]

\* cardLabels.find that compares the card only
FindCardLabel_AnyCardLabel(cardLabels, cardId, labelId) ==
    LET matching == SelectSeq(cardLabels, LAMBDA cl : cl.cardId = cardId)
    IN  IF matching = <<>> THEN Undefined ELSE matching[1]

\* lines 325-328: the first entry with this cardId and this labelId
FindCardLabel(cardLabels, cardId, labelId) ==
    LET matching == SelectSeq(cardLabels,
                       LAMBDA cl : cl.cardId = cardId /\ cl.labelId = labelId)
    IN  IF matching = <<>> THEN Undefined ELSE matching[1]

\* lines 351-357: the outer catch wraps whatever was thrown
RemoveFailed(message) ==
    [kind |-> "error",
     message |-> <<"Failed to remove label from card: ">> \o message]

\* lines 341-349: the message of the inner catch
CannotRemove ==
    << "Cannot remove label - this may be a Planka version limitation. ",
       "The DELETE /api/card-labels endpoint returned an error. ",
       "Try removing the label manually through the Planka UI." >>

NotOnCard == [kind |-> "value", success |-> TRUE, message |-> "Label was not on card"]

Removed == [kind |-> "value", success |-> TRUE]

\* what is remembered of a call once the next one starts
Finished(u) ==
    IF u.pc \in {"returned", "thrown"}
    THEN [kind |-> "call", cardId |-> u.cardId, labelId |-> u.labelId,
          requests |-> u.requests, failed |-> u.failed, result |-> u.result]
    ELSE NoCall

\* line 314: a caller starts a call; the GET of line 317 is issued
RemoveLabelFromCard ==
    /\ unlabel.pc \in {"idle", "returned", "thrown"}
    /\ \E cardId \in UnlabelCards, labelId \in UnlabelLabels :
          unlabel' = [unlabel EXCEPT
                        !.pc = "getCard", !.cardId = cardId, !.labelId = labelId,
                        !.cardLabel = Undefined,
                        !.requests = << Get(<<"/api/cards/", cardId>>) >>,
                        !.failed = FALSE, !.result = NoResult,
                        !.previous = Finished(unlabel)]
    /\ UNCHANGED exceptUnlabel

\* lines 317-338: the card arrives; the entry is looked up; without one the
\* call returns, with one the DELETE of line 340 is issued
UnlabelGetCard ==
    /\ unlabel.pc = "getCard"
    /\ \E response \in CardResponses(unlabel.cardLabels, unlabel.cardId) :
          IF ~response.ok
          THEN unlabel' = [unlabel EXCEPT
                             !.pc = "thrown", !.failed = TRUE,
                             !.result = RemoveFailed(<<"request error">>)]
          ELSE LET cardLabel == FindCardLabel(response.items, unlabel.cardId,
                                              unlabel.labelId)
               IN  IF cardLabel = Undefined
                   THEN unlabel' = [unlabel EXCEPT !.pc = "returned",
                                                   !.result = NotOnCard]
                   ELSE unlabel' = [unlabel EXCEPT
                                      !.pc = "delete", !.cardLabel = cardLabel,
                                      !.requests = Append(@,
                                         Delete(<<"/api/card-labels/", cardLabel.id>>))]
    /\ UNCHANGED exceptUnlabel

\* lines 339-350: the DELETE settles; a rejection is rethrown by both catches
UnlabelDelete ==
    /\ unlabel.pc = "delete"
    /\ \E ok \in BOOLEAN :
          IF ok
          THEN unlabel' = [unlabel EXCEPT
                             !.pc = "returned", !.result = Removed,
                             !.cardLabels = DeleteCardLabel(@, unlabel.cardLabel.id)]
          ELSE unlabel' = [unlabel EXCEPT
                             !.pc = "thrown", !.failed = TRUE,
                             !.result = RemoveFailed(CannotRemove)]
    /\ UNCHANGED exceptUnlabel

NextUnlabel == RemoveLabelFromCard \/ UnlabelGetCard \/ UnlabelDelete

(***************************************************************************)
(* resolveUsers.  resolve is the frame of the call: the userIds asked for, *)
(* the requests it has issued, the response of the service and what the    *)
(* caller got.                                                             *)
(***************************************************************************)
\* the users of the backing service; a user has more fields than the four
\* that resolveUsers hands on
ServiceUsers ==
    << [id |-> "u1", name |-> Str(<<"A", "n", "n">>), username |-> "ann",
        email |-> "ann@example.org", role |-> "admin"],
       [id |-> "u2", name |-> NullName, username |-> "bob",
        email |-> "bob@example.org", role |-> "member"],
       [id |-> "u3", name |-> Str(<<"C", "y">>), username |-> "cy",
        email |-> "cy@example.org", role |-> "member"] >>

\* ids a caller may ask for: u9 is the id of no user
RequestedIds == {"u1", "u2", "u3", "u9"}

\* a response to GET /api/users: answered or rejected, with or without an
\* items array
UsersResponse(ok, hasItems, items) ==
    [ok |-> ok, asked |-> TRUE, hasItems |-> hasItems, items |-> items]

NoUsersResponse == [ok |-> FALSE, asked |-> FALSE, hasItems |-> FALSE, items |-> <<>>]

\* all users, the first of them only, no items, or a failure
UsersResponses ==
    { UsersResponse(TRUE, TRUE, ServiceUsers),
      UsersResponse(TRUE, TRUE, SubSeq(ServiceUsers, 1, 1)),
      UsersResponse(TRUE, FALSE, <<>>),
      UsersResponse(FALSE, FALSE, <<>>) }

EmptyMap == [id \in {} |-> Undefined]

ResolveIdle ==
    [pc |-> "idle", userIds |-> <<>>, requests |-> <<>>,
     response |-> NoUsersResponse, result |-> NoResult]

\* users.find(u => u.id === userId)
FindUser(users, userId) ==
    LET matching == SelectSeq(users, LAMBDA u : u.id = userId)
    IN  IF matching = <<>> THEN Undefined ELSE matching[1]

\* the whole user record instead of the four fields
UserInfo_Whole(user) == user

\* lines 291-296
UserInfo(user) ==
    [id |-> user.id, name |-> user.name, username |-> user.username,
     email |-> user.email]

\* lines 288-298: the loop over userIds, from the map built so far
RECURSIVE ResolveLoop(_, _, _)
ResolveLoop(users, userIds, map) ==
    IF userIds = <<>> THEN map
    ELSE LET user == FindUser(users, Head(userIds))
         IN  ResolveLoop(users, Tail(userIds),
                IF user = Undefined THEN map
                ELSE (Head(userIds) :> UserInfo(user)) @@ map)

\* lines 302-304
ResolveFailed(message) ==
    [kind |-> "error", message |-> <<"Failed to resolve users: ">> \o message]

\* lines 276-283: a caller starts a call; the one request is issued
ResolveUsers ==
    /\ resolve.pc \in {"idle", "returned", "thrown"}
    /\ \E userIds \in SeqsUpTo(RequestedIds, MaxUserIds) :
          resolve' = [ResolveIdle EXCEPT !.pc = "getUsers", !.userIds = userIds,
                                         !.requests = << Get(<<"/api/users">>) >>]
    /\ UNCHANGED exceptResolve

\* lines 283-305: the response arrives and the map is built, or the request
\* was rejected and the catch throws
ResolveGetUsers ==
    /\ resolve.pc = "getUsers"
    /\ \E response \in UsersResponses :
          resolve' =
             IF ~response.ok
             THEN [resolve EXCEPT !.pc = "thrown", !.response = response,
                                  !.result = ResolveFailed(<<"request error">>)]
             ELSE [resolve EXCEPT
                     !.pc = "returned", !.response = response,
                     !.result =
                        [kind |-> "value",
                         map |-> IF ~response.hasItems THEN EmptyMap
                                 ELSE ResolveLoop(response.items,
                                                  resolve.userIds, EmptyMap)]]
    /\ UNCHANGED exceptResolve

NextResolve == ResolveUsers \/ ResolveGetUsers

(***************************************************************************)
(* createCardWithTasks, with createCard, createTask, getOrCreateTaskList   *)
(* and createComment.  create is the frame of the call: requests are the   *)
(* requests it has issued, in order; stored is what the backing service    *)
(* has stored for them; card, i, createdTasks and createdComment are the   *)
(* locals of the function.                                                 *)
(***************************************************************************)
\* line 57 and line 76: the default position and the spacing of positions
BasePosition == 65535

NewCardId == "c1"

NewTaskListId == "tl1"

TaskNames == {"a", "b"}

\* JavaScript truthiness of a string | undefined
TruthyText(s) == s.kind = "string" /\ s.chars # <<>>

\* the parameters of a call: tasks absent or an array of names, comment
\* absent, empty or a text, position absent or given
CreateParamChoices ==
    { [tasks |-> t, comment |-> c, position |-> p] :
        t \in { Undefined } \cup { Array(s) : s \in SeqsUpTo(TaskNames, MaxTaskNames) },
        c \in { Undefined, Str(<<>>), Str(<<"o", "k">>) },
        p \in { NotGiven, Given(1000) } }

Post(path, body) == [method |-> "POST", path |-> path, body |-> body]

\* cards.ts lines 140-162: the request of createCard
PostCard(position) ==
    Post(<<"/api/lists/", "l1", "/cards">>,
         [name |-> "card", position |-> position, type |-> "project"])

\* tasks.ts lines 137-143: the request that creates the default task list
PostTaskList(cardId) ==
    Post(<<"/api/cards/", cardId, "/task-lists">>,
         [name |-> "Tasks", position |-> BasePosition, showOnFrontOfCard |-> TRUE])

\* tasks.ts lines 171-177
PostTask(taskListId, name, position) ==
    Post(<<"/api/task-lists/", taskListId, "/tasks">>,
         [name |-> name, position |-> position])

\* comments.ts lines 103-111
PostComment(cardId, text) ==
    Post(<<"/api/cards/", cardId, "/comments">>, [text |-> text])

\* what the service answers to a write: it stores and answers, it stores and
\* answers with something the client cannot use, or it rejects
WriteOutcomes == {"ok", "malformed", "rejected"}

CreateIdle ==
    [pc |-> "idle",
     params |-> [tasks |-> Undefined, comment |-> Undefined, position |-> NotGiven],
     card |-> Undefined, i |-> 0, createdTasks |-> <<>>,
     createdComment |-> Null, requests |-> <<>>, stored |-> <<>>,
     result |-> NoResult]

\* line 72: tasks && tasks.length > 0
TaskCount(p) == IF p.tasks = Undefined THEN 0 ELSE Len(p.tasks.items)

\* every task at position 65535, whatever its index
TaskPosition_Flat(i) == BasePosition

\* line 76
TaskPosition(i) == BasePosition * (i + 1)

Issue(f, request, next) ==
    [f EXCEPT !.pc = next, !.requests = Append(@, request)]

Store(f, request) == [f EXCEPT !.stored = Append(@, request)]

\* a catch that undoes what the call has written
CreateThrown_Rollback(f, message) ==
    [f EXCEPT !.pc = "thrown", !.stored = <<>>,
              !.result = [kind |-> "error", message |-> message]]

\* the messages of the catch blocks of createCard, getOrCreateTaskList,
\* createTask and createComment; createCardWithTasks rethrows what it caught
CreateThrown(f, message) ==
    [f EXCEPT !.pc = "thrown", !.result = [kind |-> "error", message |-> message]]

\* lines 87-100: after the task loop
AfterTasks(f) ==
    IF TruthyText(f.params.comment)
    THEN Issue(f, PostComment(f.card.id, f.params.comment), "createComment")
    ELSE [f EXCEPT !.pc = "returned",
                   !.result = [kind |-> "value", card |-> f.card,
                               tasks |-> f.createdTasks,
                               comment |-> f.createdComment]]

\* line 73 and tasks.ts line 122: the loop test; the next createTask starts
\* with the GET of getOrCreateTaskList
LoopTest(f) ==
    IF f.i < TaskCount(f.params)
    THEN Issue(f, Get(<<"/api/cards/", f.card.id>>), "getCard")
    ELSE AfterTasks(f)

\* line 56: a caller starts a call; createCard issues its POST
CreateCardWithTasks ==
    /\ create.pc \in {"idle", "returned", "thrown"}
    /\ \E p \in CreateParamChoices :
          create' = Issue([CreateIdle EXCEPT !.params = p],
                          PostCard(IF p.position.given THEN p.position.value
                                   ELSE BasePosition),
                          "createCard")
    /\ UNCHANGED exceptCreate

\* lines 62-68 and cards.ts lines 155-171
CreateCard ==
    /\ create.pc = "createCard"
    /\ \E outcome \in WriteOutcomes :
          LET request == create.requests[Len(create.requests)]
              card    == [id |-> NewCardId, position |-> request.body.position]
          IN  create' =
                CASE outcome = "ok" ->
                       LoopTest([Store(create, request) EXCEPT !.card = card])
                  [] outcome = "malformed" ->
                       CreateThrown(Store(create, request),
                                    <<"Failed to create card: ", "validation error">>)
                  [] OTHER ->
                       CreateThrown(create,
                                    <<"Failed to create card: ", "request error">>)
    /\ UNCHANGED exceptCreate

\* the task lists the service holds for the card
StoredTaskLists(f) ==
    SelectSeq(f.stored, LAMBDA w : w.path = PostTaskList(f.card.id).path)

\* tasks.ts lines 122-143 and 150-156, 185-192: the card arrives; with a task
\* list the task is posted, without one the task list is
CreateGetCard ==
    /\ create.pc = "getCard"
    /\ \E ok \in BOOLEAN :
          create' =
            IF ~ok
            THEN CreateThrown(create,
                    <<"Failed to create task: ", "Failed to get/create task list: ",
                      "request error">>)
            ELSE IF Len(StoredTaskLists(create)) > 0
                 THEN Issue(create,
                            PostTask(NewTaskListId,
                                     create.params.tasks.items[create.i + 1],
                                     TaskPosition(create.i)),
                            "createTask")
                 ELSE Issue(create, PostTaskList(create.card.id), "createTaskList")
    /\ UNCHANGED exceptCreate

\* tasks.ts lines 137-156, 171-177: the task list is created, then the task
\* is posted
CreateTaskList ==
    /\ create.pc = "createTaskList"
    /\ \E outcome \in WriteOutcomes :
          LET request == create.requests[Len(create.requests)]
          IN  create' =
                CASE outcome = "ok" ->
                       Issue(Store(create, request),
                             PostTask(NewTaskListId,
                                      create.params.tasks.items[create.i + 1],
                                      TaskPosition(create.i)),
                             "createTask")
                  [] outcome = "malformed" ->
                       CreateThrown(Store(create, request),
                          <<"Failed to create task: ",
                            "Failed to get/create task list: ",
                            "Failed to create task list">>)
                  [] OTHER ->
                       CreateThrown(create,
                          <<"Failed to create task: ",
                            "Failed to get/create task list: ", "request error">>)
    /\ UNCHANGED exceptCreate

\* tasks.ts lines 171-192 and lines 78-84: the task is created and pushed,
\* and the loop goes on
CreateTask ==
    /\ create.pc = "createTask"
    /\ \E ok \in BOOLEAN :
          LET request == create.requests[Len(create.requests)]
          IN  create' =
                IF ok
                THEN LoopTest([Store(create, request) EXCEPT
                                 !.createdTasks = Append(@, request.body),
                                 !.i = @ + 1])
                ELSE CreateThrown(create,
                                  <<"Failed to create task: ", "request error">>)
    /\ UNCHANGED exceptCreate

\* lines 89-100 and comments.ts lines 103-123
CreateComment ==
    /\ create.pc = "createComment"
    /\ \E ok \in BOOLEAN :
          LET request == create.requests[Len(create.requests)]
          IN  create' =
                IF ok
                THEN [Store(create, request) EXCEPT
                        !.pc = "returned", !.createdComment = request.body,
                        !.result = [kind |-> "value", card |-> create.card,
                                    tasks |-> create.createdTasks,
                                    comment |-> request.body]]
                ELSE CreateThrown(create,
                                  <<"Failed to create comment: ", "request error">>)
    /\ UNCHANGED exceptCreate

NextCreate == CreateCardWithTasks \/ CreateCard \/ CreateGetCard \/ CreateTaskList
                 \/ CreateTask \/ CreateComment

(***************************************************************************)
(* createTask, deleteTask and getTask with the task-id to card-id map.     *)
(* lookup holds taskCardIdMap, the tasks the backing service stores, how   *)
(* many tasks were created, and the last operation: its arguments, the     *)
(* requests it issued and what its caller got.                             *)
(***************************************************************************)
LookupCards == {"c1", "c2"}

\* the ids of the tasks the service creates, and t9, the id of no task
TaskId(n) == <<"t", n>>

NoCardId == [given |-> FALSE, id |-> ""]

CardIdArg(id) == [given |-> TRUE, id |-> id]

LookupIdle ==
    [taskCardIdMap |-> [t \in {} |-> ""], stored |-> {}, created |-> 0,
     last |-> [op |-> "none", id |-> TaskId(0), cardId |-> NoCardId,
               answered |-> FALSE, requests |-> <<>>, result |-> NoResult]]

\* lines 357-363: the catch of getTask
GetTaskFailed(message) ==
    [kind |-> "error", message |-> <<"Failed to get task: ">> \o message]

\* getTask that asks the map before it looks at its argument
getTask_MapFirst(id, cardId, map, stored, answered) ==
    LET taskCardId == IF id \in DOMAIN map THEN map[id] ELSE cardId.id
        request    == Get(<<"/api/cards/", taskCardId>>)
    IN  IF taskCardId = ""
        THEN [requests |-> <<>>,
              result |-> GetTaskFailed(<<"Card ID is required to get a task. ",
                 "Either provide it directly or create the task first.">>)]
        ELSE IF ~answered
        THEN [requests |-> <<request>>,
              result |-> GetTaskFailed(<<"request error">>)]
        ELSE IF [id |-> id, cardId |-> taskCardId] \in stored
        THEN [requests |-> <<request>>,
              result |-> [kind |-> "value", id |-> id, cardId |-> taskCardId]]
        ELSE [requests |-> <<request>>,
              result |-> GetTaskFailed(<<"Task with ID ", id, " not found in card ",
                                         taskCardId>>)]

\* lines 319-365: cardId || taskCardIdMap[id]; without either the call throws
\* before any request; otherwise the card is fetched and the task looked up
\* among its tasks
getTask(id, cardId, map, stored, answered) ==
    LET taskCardId == IF cardId.given /\ cardId.id # "" THEN cardId.id
                      ELSE IF id \in DOMAIN map THEN map[id] ELSE ""
        request    == Get(<<"/api/cards/", taskCardId>>)
    IN  IF taskCardId = ""
        THEN [requests |-> <<>>,
              result |-> GetTaskFailed(<<"Card ID is required to get a task. ",
                 "Either provide it directly or create the task first.">>)]
        ELSE IF ~answered
        THEN [requests |-> <<request>>,
              result |-> GetTaskFailed(<<"request error">>)]
        ELSE IF [id |-> id, cardId |-> taskCardId] \in stored
        THEN [requests |-> <<request>>,
              result |-> [kind |-> "value", id |-> id, cardId |-> taskCardId]]
        ELSE [requests |-> <<request>>,
              result |-> GetTaskFailed(<<"Task with ID ", id, " not found in card ",
                                         taskCardId>>)]

\* lines 159-193: a task is created on a card and its id is put into the
\* map, or a request is rejected and the call throws
LookupCreateTask ==
    /\ lookup.created < MaxCreated
    /\ \E cardId \in LookupCards, answered \in BOOLEAN :
          LET id == TaskId(lookup.created + 1)
              op == [op |-> "createTask", id |-> id, cardId |-> CardIdArg(cardId),
                     answered |-> answered, requests |-> <<>>, result |-> NoResult]
          IN  lookup' =
                IF answered
                THEN [lookup EXCEPT
                        !.stored = @ \cup { [id |-> id, cardId |-> cardId] },
                        !.created = @ + 1,
                        !.taskCardIdMap = (id :> cardId) @@ @,
                        !.last = [op EXCEPT !.result =
                                    [kind |-> "value", id |-> id, cardId |-> cardId]]]
                ELSE [lookup EXCEPT
                        !.last = [op EXCEPT !.result =
                                    [kind |-> "error",
                                     message |-> <<"Failed to create task: ",
                                                   "request error">>]]]
    /\ UNCHANGED exceptLookup

\* lines 392-397: the task is deleted in the service; the map keeps its entry
LookupDeleteTask ==
    /\ \E n \in 1..MaxCreated :
          LET id == TaskId(n)
              op == [op |-> "deleteTask", id |-> id, cardId |-> NoCardId,
                     answered |-> \E t \in lookup.stored : t.id = id,
                     requests |-> << Delete(<<"/api/tasks/", id>>) >>,
                     result |-> NoResult]
          IN  lookup' =
                IF op.answered
                THEN [lookup EXCEPT
                        !.stored = { t \in @ : t.id # id },
                        !.last = [op EXCEPT !.result =
                                    [kind |-> "value", id |-> id, cardId |-> ""]]]
                ELSE [lookup EXCEPT
                        !.last = [op EXCEPT !.result =
                                    [kind |-> "error", message |-> <<"request error">>]]]
    /\ UNCHANGED exceptLookup

\* lines 319-365
LookupGetTask ==
    /\ \E n \in 1..(MaxCreated + 1), answered \in BOOLEAN,
          cardId \in { NoCardId, CardIdArg("") } \cup { CardIdArg(c) : c \in LookupCards } :
          LET id  == TaskId(n)
              got == getTask(id, cardId, lookup.taskCardIdMap, lookup.stored, answered)
          IN  lookup' = [lookup EXCEPT
                           !.last = [op |-> "getTask", id |-> id, cardId |-> cardId,
                                     answered |-> answered, requests |-> got.requests,
                                     result |-> got.result]]
    /\ UNCHANGED exceptLookup

NextLookup == LookupCreateTask \/ LookupDeleteTask \/ LookupGetTask

(***************************************************************************)
(* batchCreateTasks.  batch is the frame of the call: the tasks given, the *)
(* index of the loop, the createTask calls made so far, and results,       *)
(* successes and failures.                                                 *)
(***************************************************************************)
\* a task of the batch: CreateTaskSchema lets any number be its position
BatchTasks ==
    { [cardId |-> "c1", name |-> n, position |-> p] :
        n \in TaskNames, p \in { NotGiven, Given(0), Given(5) } }

BatchIdle ==
    [pc |-> "idle", tasks |-> <<>>, i |-> 0, calls |-> <<>>,
     results |-> <<>>, successes |-> <<>>, failures |-> <<>>, result |-> NoResult]

\* lines 237-240: if (!task.position) task.position = 65535 * (i + 1)
EnsurePosition(task, i) ==
    IF ~task.position.given \/ task.position.value = 0
    THEN [task EXCEPT !.position = Given(BasePosition * (i + 1))]
    ELSE task

\* lines 234-243: the loop test; the next createTask is called, or the three
\* arrays are returned
BatchLoop(f) ==
    IF f.i < Len(f.tasks)
    THEN LET task == EnsurePosition(f.tasks[f.i + 1], f.i)
         IN  [f EXCEPT !.pc = "createTask", !.calls = Append(@, task)]
    ELSE [f EXCEPT !.pc = "returned",
                   !.result = [kind |-> "value", results |-> f.results,
                               successes |-> f.successes,
                               failures |-> f.failures]]

\* a failing createTask that ends the batch
TaskFailed_Throw(f, task, message) ==
    [f EXCEPT !.pc = "thrown",
              !.result = [kind |-> "error",
                          message |-> <<"Failed to batch create tasks: ">> \o message]]

\* lines 249-262: the catch inside the loop
TaskFailed(f, task, message) ==
    BatchLoop([f EXCEPT
                 !.results = Append(@, [success |-> FALSE, value |-> message]),
                 !.failures = Append(@, [index |-> f.i, task |-> task,
                                         error |-> message]),
                 !.i = @ + 1])

\* line 202: a caller starts a call
BatchCreateTasks ==
    /\ batch.pc \in {"idle", "returned", "thrown"}
    /\ \E tasks \in SeqsUpTo(BatchTasks, MaxBatch) :
          batch' = BatchLoop([BatchIdle EXCEPT !.tasks = tasks])
    /\ UNCHANGED exceptBatch

\* lines 242-262: createTask settles; its task or its error is recorded and
\* the loop goes on
BatchCreateTask ==
    /\ batch.pc = "createTask"
    /\ \E ok \in BOOLEAN :
          LET task == batch.calls[Len(batch.calls)]
              made == <<"created", task.name, task.position.value>>
          IN  batch' =
                IF ok
                THEN BatchLoop([batch EXCEPT
                                  !.results = Append(@, [success |-> TRUE,
                                                         value |-> made]),
                                  !.successes = Append(@, made),
                                  !.i = @ + 1])
                ELSE TaskFailed(batch, task,
                                <<"Failed to create task: ", "request error">>)
    /\ UNCHANGED exceptBatch

NextBatch == BatchCreateTasks \/ BatchCreateTask

(***************************************************************************)
(* startCardStopwatch and stopCardStopwatch on one card.  watch is the     *)
(* frame of the call together with the clock and the stopwatch the backing *)
(* service holds for the card: clock is the time in milliseconds, stopwatch *)
(* what the service holds, card the card the call fetched, now its reading  *)
(* of the clock, requests the                                              *)
(* requests it has issued, previous the call that came just before this    *)
(* one.  since and whole keep the history of the stopwatch: the instant of *)
(* the start that set it running, and the whole seconds of the runs that   *)
(* were stopped.                                                           *)
(***************************************************************************)
WatchCardId == "c1"

\* the time that can pass between two steps, in milliseconds
ClockSteps == {0, 500, 1000}

\* Date.prototype.toISOString: seconds and milliseconds, in UTC
ToISOString(t) == [kind |-> "instant", s |-> t \div 1000, ms |-> t % 1000]

\* new Date(string).getTime() of such a string
DateOf(text) == text.s * 1000 + text.ms

NoStopwatch == [kind |-> "null"]

Stopwatch(startedAt, total) ==
    [kind |-> "stopwatch", startedAt |-> startedAt, total |-> total]

Patch(path, body) == [method |-> "PATCH", path |-> path, body |-> body]

WatchIdle ==
    [pc |-> "idle", op |-> "none", clock |-> 0, stopwatch |-> NoStopwatch,
     card |-> Undefined, now |-> 0, requests |-> <<>>, result |-> NoResult,
     previous |-> NoCall, since |-> 0, whole |-> 0]

\* the clock after a step
Later(w) == { w.clock + d : d \in { s \in ClockSteps : w.clock + s <= MaxClock } }

\* what is remembered of a call once the next one starts
WatchFinished(w) ==
    IF w.pc \in {"returned", "thrown"}
    THEN [kind |-> "call", op |-> w.op, pc |-> w.pc, requests |-> w.requests,
          result |-> w.result]
    ELSE NoCall

\* lines 400-409: startedAt is now, total is kept when there is one
StartedStopwatch(card, now) ==
    Stopwatch(ToISOString(now),
              IF card.stopwatch.kind = "stopwatch" /\ card.stopwatch.total # 0
              THEN card.stopwatch.total ELSE 0)

\* line 440: !card.stopwatch || !card.stopwatch.startedAt
NotRunning(card) ==
    IF card.stopwatch.kind = "null" THEN TRUE
    ELSE card.stopwatch.startedAt.kind = "null"

\* lines 445-458 with the elapsed time in place of the sum
StoppedStopwatch_ElapsedOnly(card, now) ==
    Stopwatch(Null, (now - DateOf(card.stopwatch.startedAt)) \div 1000)

\* lines 445-458: Math.floor of the elapsed seconds, added to the total
StoppedStopwatch(card, now) ==
    LET startedAt      == DateOf(card.stopwatch.startedAt)
        elapsedSeconds == (now - startedAt) \div 1000
    IN  Stopwatch(Null, card.stopwatch.total + elapsedSeconds)

\* lines 419-425 and 467-473
WatchThrown(w, prefix, message) ==
    [w EXCEPT !.pc = "thrown",
              !.result = [kind |-> "error", message |-> <<prefix, message>>]]

\* the service stores the stopwatch of a PATCH; a run begins when a stopped
\* stopwatch is started and ends when a running one is stopped
WatchStore(w, body) ==
    LET wasRunning == ~NotRunning([stopwatch |-> w.stopwatch])
        runs       == body.startedAt.kind # "null"
    IN  [w EXCEPT !.stopwatch = body,
                  !.since = IF runs /\ ~wasRunning THEN DateOf(body.startedAt) ELSE @,
                  !.whole = IF ~runs /\ wasRunning
                            THEN @ + (w.now - w.since) \div 1000
                            ELSE @]

\* line 395: a caller starts the stopwatch; getCard issues its GET
StartCardStopwatch ==
    /\ watch.pc \in {"idle", "returned", "thrown"}
    /\ \E now \in Later(watch) :
          watch' = [watch EXCEPT
                      !.pc = "startGet", !.op = "start", !.clock = now,
                      !.card = Undefined, !.result = NoResult,
                      !.requests = << Get(<<"/api/cards/", WatchCardId>>) >>,
                      !.previous = WatchFinished(watch)]
    /\ UNCHANGED exceptWatch

\* lines 398-415: the card arrives and the PATCH is issued
StartGetCard ==
    /\ watch.pc = "startGet"
    /\ \E now \in Later(watch), ok \in BOOLEAN :
          LET w    == [watch EXCEPT !.clock = now]
              card == [id |-> WatchCardId, stopwatch |-> watch.stopwatch]
          IN  watch' =
                IF ~ok
                THEN WatchThrown(w, "Failed to start card stopwatch: ", "request error")
                ELSE [w EXCEPT
                        !.pc = "startPatch", !.card = card, !.now = now,
                        !.requests = Append(@,
                           Patch(<<"/api/cards/", WatchCardId>>,
                                 StartedStopwatch(card, now)))]
    /\ UNCHANGED exceptWatch

\* lines 412-418: the PATCH settles
StartPatch ==
    /\ watch.pc = "startPatch"
    /\ \E now \in Later(watch), outcome \in WriteOutcomes :
          LET w    == [watch EXCEPT !.clock = now]
              body == watch.requests[Len(watch.requests)].body
          IN  watch' =
                CASE outcome = "ok" ->
                       [WatchStore(w, body) EXCEPT
                          !.pc = "returned",
                          !.result = [kind |-> "value",
                                      card |-> [id |-> WatchCardId, stopwatch |-> body]]]
                  [] outcome = "malformed" ->
                       WatchThrown(WatchStore(w, body),
                                   "Failed to start card stopwatch: ", "validation error")
                  [] OTHER ->
                       WatchThrown(w, "Failed to start card stopwatch: ", "request error")
    /\ UNCHANGED exceptWatch

\* line 434: a caller stops the stopwatch; getCard issues its GET
StopCardStopwatch ==
    /\ watch.pc \in {"idle", "returned", "thrown"}
    /\ \E now \in Later(watch) :
          watch' = [watch EXCEPT
                      !.pc = "stopGet", !.op = "stop", !.clock = now,
                      !.card = Undefined, !.result = NoResult,
                      !.requests = << Get(<<"/api/cards/", WatchCardId>>) >>,
                      !.previous = WatchFinished(watch)]
    /\ UNCHANGED exceptWatch

\* lines 437-463: the card arrives; a stopwatch that is not running is
\* returned as it is, a running one is stopped with a PATCH
StopGetCard ==
    /\ watch.pc = "stopGet"
    /\ \E now \in Later(watch), ok \in BOOLEAN :
          LET w    == [watch EXCEPT !.clock = now]
              card == [id |-> WatchCardId, stopwatch |-> watch.stopwatch]
          IN  watch' =
                IF ~ok
                THEN WatchThrown(w, "Failed to stop card stopwatch: ", "request error")
                ELSE IF NotRunning(card)
                THEN [w EXCEPT !.pc = "returned", !.card = card,
                               !.result = [kind |-> "value", card |-> card]]
                ELSE [w EXCEPT
                        !.pc = "stopPatch", !.card = card, !.now = now,
                        !.requests = Append(@,
                           Patch(<<"/api/cards/", WatchCardId>>,
                                 StoppedStopwatch(card, now)))]
    /\ UNCHANGED exceptWatch

\* lines 460-466: the PATCH settles
StopPatch ==
    /\ watch.pc = "stopPatch"
    /\ \E now \in Later(watch), outcome \in WriteOutcomes :
          LET w    == [watch EXCEPT !.clock = now]
              body == watch.requests[Len(watch.requests)].body
          IN  watch' =
                CASE outcome = "ok" ->
                       [WatchStore(w, body) EXCEPT
                          !.pc = "returned",
                          !.result = [kind |-> "value",
                                      card |-> [id |-> WatchCardId, stopwatch |-> body]]]
                  [] outcome = "malformed" ->
                       WatchThrown(WatchStore(w, body),
                                   "Failed to stop card stopwatch: ", "validation error")
                  [] OTHER ->
                       WatchThrown(w, "Failed to stop card stopwatch: ", "request error")
    /\ UNCHANGED exceptWatch

NextWatch == StartCardStopwatch \/ StartGetCard \/ StartPatch
                \/ StopCardStopwatch \/ StopGetCard \/ StopPatch

(***************************************************************************)
(* The HTTP front-end: app.post("/mcp") and handleJsonRpc.  rpc is the     *)
(* frame of one POST together with the sessions map: request and sessionId *)
(* are what arrived, tool the tool whose handler is awaited, response what *)
(* handleJsonRpc resolved to, written what was written to the HTTP         *)
(* response, settled how the handler settled.                             *)
(***************************************************************************)
RegisteredTools == {"mcp_kanban_card_manager", "mcp_kanban_task_manager"}

RpcId(n) == [kind |-> "number", value |-> n]

\* the requests a client sends: a method, an id or none, params.name or none
RpcRequests ==
    { [method |-> method, id |-> id, name |-> name] :
        method \in {"initialize", "notifications/initialized", "tools/list",
                    "tools/call", "resources/list"},
        id \in {Undefined, RpcId(1), RpcId(2)},
        name \in {Undefined, Str(<<"mcp_kanban_card_manager">>),
                  Str(<<"mcp_kanban_task_manager">>), Str(<<"mcp_kanban_nothing">>)} }

\* the mcp-session-id header: absent, or the id of a session
SessionHeaders == {Undefined, Str(<<"s1">>)}

\* what crypto.randomUUID returns
RandomUUID == Str(<<"u1">>)

\* how a tool handler settles: with a value, or with the Error it threw
HandlerOutcomes ==
    { [kind |-> "value", value |-> "done"],
      [kind |-> "error", message |-> "id is required"],
      [kind |-> "error", message |-> "Failed to get card: request error"] }

NoSessions == [known |-> {}, initialized |-> {}]

RpcIdle ==
    [pc |-> "idle", request |-> Undefined, sessionId |-> Undefined,
     sessions |-> NoSessions, tool |-> Undefined, response |-> NoResult,
     written |-> <<>>, settled |-> NoResult]

\* JSON.stringify of a handler's value
Stringify(value) == <<"\"", value, "\"">>

\* error.message || String(error)
ErrorMessage(error) ==
    IF error.message # "" THEN error.message ELSE "Error"

RpcResult(id, value) == [jsonrpc |-> "2.0", id |-> id, result |-> value]

RpcError(id, code, message) ==
    [jsonrpc |-> "2.0", id |-> id, error |-> [code |-> code, message |-> message]]

\* the tool of a tools/call: tools.find over the registered names
FindTool(name) ==
    IF name.kind = "string" /\ name.chars[1] \in RegisteredTools THEN name ELSE Undefined

\* lines 562-568
ToolNotFound(id, name) == RpcError(id, -32601, <<"Tool not found: ", name>>)

\* lines 579-585 with the code of the outer catch
ToolFailed_Internal(id, error) == RpcError(id, -32603, ErrorMessage(error))

\* lines 579-585
ToolFailed(id, error) == RpcError(id, -32000, ErrorMessage(error))

\* lines 587-593
MethodNotFound(id, method) == RpcError(id, -32601, <<"Method not found: ", method>>)

\* lines 520-593 up to the await of line 571: the response of a request that
\* awaits no handler, or NoResult when the handler of a tool is awaited
Dispatch(request) ==
    CASE request.method = "initialize" ->
           RpcResult(request.id,
                     [protocolVersion |-> "2024-11-05",
                      serverInfo |-> "planka-mcp-server"])
      [] request.method = "notifications/initialized" -> Null
      [] request.method = "tools/list" ->
           RpcResult(request.id, [tools |-> RegisteredTools])
      [] request.method = "tools/call" ->
           IF FindTool(request.name) = Undefined
           THEN ToolNotFound(request.id, request.name)
           ELSE NoResult
      [] OTHER -> MethodNotFound(request.id, request.method)

\* lines 513-517 and 522: the session is looked up or created, and
\* initialize marks it
Sessions(sessions, sessionId, method) ==
    [known |-> sessions.known \cup {sessionId},
     initialized |-> IF method = "initialize"
                     THEN sessions.initialized \cup {sessionId}
                     ELSE sessions.initialized]

\* lines 632-647: the acknowledgement of a notification, or the response as
\* one server-sent event
Written(sessionId, response) ==
    IF response = Null
    THEN << [status |-> 202, session |-> sessionId, json |-> [success |-> TRUE]] >>
    ELSE << [status |-> 200, session |-> sessionId, data |-> response] >>

\* lines 618-647 and 510-593: a POST arrives; handleJsonRpc runs up to its
\* response or to the await of the handler
PostMcp ==
    /\ rpc.pc \in {"idle", "responded"}
    /\ \E request \in RpcRequests, header \in SessionHeaders :
          LET sessionId == IF header = Undefined THEN RandomUUID ELSE header
              response  == Dispatch(request)
              r == [rpc EXCEPT
                      !.request = request, !.sessionId = sessionId,
                      !.sessions = Sessions(@, sessionId, request.method),
                      !.tool = Undefined, !.response = NoResult,
                      !.written = <<>>, !.settled = NoResult]
          IN  rpc' =
                IF response = NoResult
                THEN [r EXCEPT !.pc = "handler", !.tool = FindTool(request.name)]
                ELSE [r EXCEPT !.pc = "responded", !.response = response,
                               !.written = Written(sessionId, response)]
    /\ UNCHANGED exceptRpc

\* lines 570-586 and 629-647: the handler settles and the response is written
ToolHandler ==
    /\ rpc.pc = "handler"
    /\ \E outcome \in HandlerOutcomes :
          LET response ==
                IF outcome.kind = "value"
                THEN RpcResult(rpc.request.id,
                               [content |-> << [type |-> "text",
                                                text |-> Stringify(outcome.value)] >>])
                ELSE ToolFailed(rpc.request.id, outcome)
          IN  rpc' = [rpc EXCEPT !.pc = "responded", !.response = response,
                                 !.settled = outcome,
                                 !.written = Written(rpc.sessionId, response)]
    /\ UNCHANGED exceptRpc

NextRpc == PostMcp \/ ToolHandler

(***************************************************************************)
(* createCard, called directly and through the "create" action of the     *)
(* card manager tool of the stdio and of the HTTP front-end.  manager is   *)
(* the frame of the call: via is the way in, args what the caller passed,  *)
(* options what createCard received, requests the requests issued, stored  *)
(* the cards the backing service has stored for it.                        *)
(***************************************************************************)
\* what a caller passes: name, description, position and type, each present
\* or not
CardArgs ==
    { [name |-> n, description |-> d, position |-> p, type |-> t] :
        n \in { Undefined, Str(<<"a">>) },
        d \in { Undefined, Str(<<>>), Str(<<"d">>) },
        p \in { NotGiven, Given(0), Given(1000) },
        t \in { Undefined, Str(<<"task">>) } }

ManagerIdle ==
    [pc |-> "idle", via |-> "none", args |-> Undefined, options |-> Undefined,
     requests |-> <<>>, stored |-> <<>>, result |-> NoResult]

\* cards.ts lines 149-153: a position that is neither undefined nor null is
\* kept, otherwise 65535
CardPosition(options) ==
    IF options.position.given THEN options.position.value ELSE BasePosition

\* cards.ts lines 140-155: the body of the POST
CardBody(options) ==
    LET body == [name |-> options.name, position |-> CardPosition(options),
                 type |-> IF TruthyText(options.type) THEN options.type
                          ELSE Str(<<"project">>)]
    IN  IF TruthyText(options.description)
        THEN body @@ [description |-> options.description]
        ELSE body

\* index.ts lines 299-304: description || "", position || 0, no type
StdioOptions(args) ==
    [name |-> args.name,
     description |-> IF TruthyText(args.description) THEN args.description
                     ELSE Str(<<>>),
     position |-> IF args.position.given /\ args.position.value # 0
                  THEN args.position ELSE Given(0),
     type |-> Undefined]

\* part_002 line 185: description || "", position || 0, type as passed
HttpOptions(args) ==
    [name |-> args.name,
     description |-> IF TruthyText(args.description) THEN args.description
                     ELSE Str(<<>>),
     position |-> IF args.position.given /\ args.position.value # 0
                  THEN args.position ELSE Given(0),
     type |-> args.type]

\* cards.ts lines 138-162: createCard issues its POST
CallCreateCard(via, args, options) ==
    [ManagerIdle EXCEPT
       !.pc = "post", !.via = via, !.args = args, !.options = options,
       !.requests = << Post(<<"/api/lists/", "l1", "/cards">>, CardBody(options)) >>]

\* index.ts lines 297-298 and part_002 line 184
Required(via, args) ==
    [ManagerIdle EXCEPT
       !.pc = "thrown", !.via = via, !.args = args,
       !.result = [kind |-> "error", message |-> "listId and name are required"]]

\* cards.ts line 138: a caller with a name calls createCard
CreateCardDirect ==
    /\ manager.pc \in {"idle", "returned", "thrown"}
    /\ \E args \in { a \in CardArgs : a.name # Undefined } :
          manager' = CallCreateCard("direct", args, args)
    /\ UNCHANGED exceptManager

\* index.ts lines 296-305
ManagerCreateStdio ==
    /\ manager.pc \in {"idle", "returned", "thrown"}
    /\ \E args \in CardArgs :
          manager' = IF ~TruthyText(args.name) THEN Required("stdio", args)
                     ELSE CallCreateCard("stdio", args, StdioOptions(args))
    /\ UNCHANGED exceptManager

\* part_002 lines 183-185
ManagerCreateHttp ==
    /\ manager.pc \in {"idle", "returned", "thrown"}
    /\ \E args \in CardArgs :
          manager' = IF ~TruthyText(args.name) THEN Required("http", args)
                     ELSE CallCreateCard("http", args, HttpOptions(args))
    /\ UNCHANGED exceptManager

\* cards.ts lines 155-171: the POST settles
CardPost ==
    /\ manager.pc = "post"
    /\ \E outcome \in WriteOutcomes :
          LET request == manager.requests[1]
          IN  manager' =
                CASE outcome = "ok" ->
                       [manager EXCEPT
                          !.pc = "returned", !.stored = Append(@, request.body),
                          !.result = [kind |-> "value", card |-> request.body]]
                  [] outcome = "malformed" ->
                       [manager EXCEPT
                          !.pc = "thrown", !.stored = Append(@, request.body),
                          !.result = [kind |-> "error",
                                      message |-> "Failed to create card: validation error"]]
                  [] OTHER ->
                       [manager EXCEPT
                          !.pc = "thrown",
                          !.result = [kind |-> "error",
                                      message |-> "Failed to create card: request error"]]
    /\ UNCHANGED exceptManager

NextManager == CreateCardDirect \/ ManagerCreateStdio \/ ManagerCreateHttp \/ CardPost

Init ==
    /\ pc = "idle"
    /\ params = [since |-> Null, until |-> Null, maxComments |-> NotGiven]
    /\ from = NaN
    /\ to = NaN
    /\ boards = <<>>
    /\ bi = 0
    /\ lists = <<>>
    /\ li = 0
    /\ cards = <<>>
    /\ ci = 0
    /\ locals = InitLocals
    /\ result = NoResult
    /\ visited = <<>>
    /\ inflight = {}
    /\ summary = SummaryIdle
    /\ fan = FanIdle
    /\ unlabel = UnlabelIdle
    /\ resolve = ResolveIdle
    /\ create = CreateIdle
    /\ lookup = LookupIdle
    /\ batch = BatchIdle
    /\ watch = WatchIdle
    /\ rpc = RpcIdle
    /\ manager = ManagerIdle

\* lines 87-107: a caller starts a call; nothing of an earlier call is kept
Call ==
    /\ pc \in {"idle", "returned", "thrown"}
    /\ \E p \in ParamChoices :
          /\ params' = p
          /\ from' = FromOf(p)
          /\ to' = ToOf(p)
    /\ locals' = InitLocals
    /\ boards' = <<>> /\ lists' = <<>> /\ cards' = <<>>
    /\ bi' = 0 /\ li' = 0 /\ ci' = 0
    /\ result' = NoResult
    /\ visited' = <<>>
    /\ pc' = "getBoards"
    /\ UNCHANGED exceptFeed
    /\ inflight' = Awaiting(pc', boards', bi', lists', li', cards', ci')

\* line 111
GetBoards ==
    /\ pc = "getBoards"
    /\ \E response \in BoardsResponses :
          IF getBoardsThrows(response)
          THEN /\ pc' = "thrown"
               /\ result' = Thrown("request failed")
               /\ UNCHANGED <<boards, bi>>
          ELSE /\ boards' = getBoards(response)
               /\ bi' = 1
               /\ pc' = IF getBoards(response) = <<>> THEN "sort" ELSE "getLists"
               /\ UNCHANGED result
    /\ UNCHANGED <<params, from, to, lists, li, cards, ci, locals, visited, exceptFeed>>
    /\ inflight' = Awaiting(pc', boards', bi', lists', li', cards', ci')

\* line 118
GetLists ==
    /\ pc = "getLists"
    /\ \E response \in ListsResponses(boards[bi]) :
          /\ lists' = getLists(response)
          /\ IF getLists(response) = <<>>
             THEN Goto(AfterBoard)
             ELSE pc' = "getCards" /\ li' = 1 /\ ci' = 0 /\ bi' = bi
    /\ UNCHANGED <<params, from, to, boards, cards, locals, result, visited, exceptFeed>>
    /\ inflight' = Awaiting(pc', boards', bi', lists', li', cards', ci')

\* line 123
GetCards ==
    /\ pc = "getCards"
    /\ \E response \in CardsResponses(lists[li]) :
          /\ cards' = getCards(response)
          /\ IF getCards(response) = <<>>
             THEN Goto(AfterList)
             ELSE pc' = "card" /\ ci' = 1 /\ li' = li /\ bi' = bi
    /\ UNCHANGED <<params, from, to, boards, lists, locals, result, visited, exceptFeed>>
    /\ inflight' = Awaiting(pc', boards', bi', lists', li', cards', ci')

\* lines 125-169
CardStep ==
    /\ pc = "card"
    /\ locals' = CardEvent(locals, Window, Ctx, cards[ci])
    /\ visited' = Append(visited, [boardId |-> Ctx.boardId, listId |-> Ctx.listId,
                                   card |-> cards[ci],
                                   tasks |-> NotAsked, comments |-> NotAsked])
    /\ pc' = "getTasks"
    /\ UNCHANGED <<params, from, to, boards, bi, lists, li, cards, ci, result, exceptFeed>>
    /\ inflight' = Awaiting(pc', boards', bi', lists', li', cards', ci')

\* lines 171-201
GetTasks_NoCatch ==
    /\ pc = "getTasks"
    /\ \E response \in TasksResponses(cards[ci].id, Fetched(visited)) :
          IF response.ok
          THEN /\ locals' = TaskLoop(locals, Window, Ctx, getTasks(response))
               /\ visited' = [visited EXCEPT ![Len(visited)].tasks = response]
               /\ pc' = "getComments"
               /\ UNCHANGED result
          ELSE /\ pc' = "thrown"
               /\ result' = Thrown("request failed")
               /\ visited' = [visited EXCEPT ![Len(visited)].tasks = response]
               /\ UNCHANGED locals
    /\ UNCHANGED <<params, from, to, boards, bi, lists, li, cards, ci, exceptFeed>>
    /\ inflight' = Awaiting(pc', boards', bi', lists', li', cards', ci')

GetTasks ==
    /\ pc = "getTasks"
    /\ \E response \in TasksResponses(cards[ci].id, Fetched(visited)) :
          /\ locals' = TaskLoop(locals, Window, Ctx, getTasks(response))
          /\ visited' = [visited EXCEPT ![Len(visited)].tasks = response]
    /\ pc' = "getComments"
    /\ UNCHANGED <<params, from, to, boards, bi, lists, li, cards, ci, result, exceptFeed>>
    /\ inflight' = Awaiting(pc', boards', bi', lists', li', cards', ci')

\* lines 203-242
GetComments ==
    /\ pc = "getComments"
    /\ \E response \in CommentsResponses(cards[ci].id, Fetched(visited)) :
          /\ locals' = TrackAffected(
                          CommentLoop(locals, Window, Ctx, getComments(response)),
                          Ctx, cards[ci])
          /\ visited' = [visited EXCEPT ![Len(visited)].comments = response]
    /\ Goto(AfterCard)
    /\ UNCHANGED <<params, from, to, boards, lists, cards, result, exceptFeed>>
    /\ inflight' = Awaiting(pc', boards', bi', lists', li', cards', ci')

\* lines 244-270
Return ==
    /\ pc = "sort"
    /\ LET sorted == Sort(locals.changes)
       IN  /\ locals' = [locals EXCEPT !.changes = sorted]
           /\ IF from = NaN \/ to = NaN
              THEN /\ pc' = "thrown"
                   /\ result' = Thrown("Invalid time value")
              ELSE /\ pc' = "returned"
                   /\ result' =
                        [kind |-> "value",
                         query |-> [from |-> toISOString(from), to |-> toISOString(to)],
                         summary |-> [totalChanges |-> Len(sorted),
                                      newCards |-> locals.newCards,
                                      updatedCards |-> locals.updatedCards,
                                      completedCards |-> locals.completedCards,
                                      newComments |-> locals.newComments,
                                      newTasks |-> locals.newTasks,
                                      completedTasks |-> locals.completedTasks],
                         changes |-> sorted,
                         affectedCards |-> locals.affectedCardsMap,
                         userIds |-> locals.userIdsSet]
    /\ UNCHANGED <<params, from, to, boards, bi, lists, li, cards, ci, visited, exceptFeed>>
    /\ inflight' = Awaiting(pc', boards', bi', lists', li', cards', ci')

Next == Call \/ GetBoards \/ GetLists \/ GetCards \/ CardStep \/ GetTasks
           \/ GetComments \/ Return

Spec == Init /\ [][Next]_vars

(***************************************************************************)
(* getBoardSummary, one step per awaited request; the callbacks that       *)
(* Promise.all runs for the lists resolve in any order.                    *)
(***************************************************************************)
\* lines 61-62: a caller starts a call
SummaryCall ==
    /\ summary.pc \in {"idle", "returned", "thrown"}
    /\ \E p \in SummaryParamChoices :
          summary' = [SummaryIdle EXCEPT !.pc = "getBoard", !.params = p]
    /\ UNCHANGED exceptSummary

\* lines 66-70, and the rethrow of lines 199-202
GetBoard ==
    /\ summary.pc = "getBoard"
    /\ \E response \in BoardResponses(summary.params.boardId) :
          LET board == getBoard(response)
          IN  IF board = Null
              THEN summary' = [summary EXCEPT
                                 !.pc = "thrown",
                                 !.result = NotFound(summary.params.boardId)]
              ELSE summary' = [summary EXCEPT !.pc = "getLists", !.board = board]
    /\ UNCHANGED exceptSummary

\* lines 73-77
SummaryGetLists ==
    /\ summary.pc = "getLists"
    /\ \E response \in SummaryListsResponses :
          LET allLists == getLists(response)
          IN  summary' = [summary EXCEPT
                            !.allLists = allLists,
                            !.listsWithCards = [i \in 1..Len(allLists) |-> Pending],
                            !.pc = IF allLists = <<>> THEN "getLabels" ELSE "lists"]
    /\ UNCHANGED exceptSummary

\* lines 77-126: the callback of one list runs to its end
ListCallback ==
    /\ summary.pc = "lists"
    /\ \E i \in 1..Len(summary.allLists) :
          /\ summary.listsWithCards[i] = Pending
          /\ \E answers \in ListAnswers(summary.allLists[i].id) :
                LET resolved == [summary.listsWithCards EXCEPT
                                   ![i] = ListWithCards(summary.params,
                                                        summary.allLists[i], answers)]
                IN  summary' = [summary EXCEPT
                                  !.listsWithCards = resolved,
                                  !.cardLabels = @ \o answers.cardLabels,
                                  !.pc = IF \A j \in 1..Len(resolved) :
                                               resolved[j] # Pending
                                         THEN "getLabels" ELSE "lists"]
    /\ UNCHANGED exceptSummary

\* lines 129-198
GetLabels ==
    /\ summary.pc = "getLabels"
    /\ \E response \in LabelsResponses :
          summary' = [summary EXCEPT
                        !.pc = "returned",
                        !.result = Summarise(summary.board, summary.listsWithCards,
                                             getLabels(response))]
    /\ UNCHANGED exceptSummary

NextSummary == SummaryCall \/ GetBoard \/ SummaryGetLists \/ ListCallback
                  \/ GetLabels

SpecSummary == Init /\ [][NextSummary]_vars

SpecFan == Init /\ [][NextFan]_vars

SpecUnlabel == Init /\ [][NextUnlabel]_vars

SpecResolve == Init /\ [][NextResolve]_vars

SpecCreate == Init /\ [][NextCreate]_vars

SpecLookup == Init /\ [][NextLookup]_vars

SpecBatch == Init /\ [][NextBatch]_vars

SpecWatch == Init /\ [][NextWatch]_vars

SpecRpc == Init /\ [][NextRpc]_vars

SpecManager == Init /\ [][NextManager]_vars

(***************************************************************************)
(* Properties of getActivityFeed.  They speak of the instants themselves:  *)
(* a timestamp lies in the window when it is a date and from <= it <= to.  *)
(***************************************************************************)
Instant(ts) == (ts.h - ts.off) * HourMs

InWindow(ts) ==
    /\ ts.kind = "iso"
    /\ from # NaN /\ to # NaN
    /\ from <= Instant(ts) /\ Instant(ts) <= to

Returned == pc = "returned"

\* the indexes of the events of s that satisfy P
Where(s, P(_)) == { i \in 1..Len(s) : P(s[i]) }

CardTypes == {"card_created", "card_updated", "card_completed"}

TaskTypes == {"task_created", "task_completed"}

Visited == { visited[i] : i \in 1..Len(visited) }

Items(response) == { response.items[i] : i \in 1..Len(response.items) }

CardEventsOf(cardId, types) ==
    Where(result.changes, LAMBDA e : e.cardId = cardId /\ e.type \in types)

TaskEventsOf(taskId, cardId, types) ==
    Where(result.changes,
          LAMBDA e : e.type \in types /\ e.cardId = cardId /\ e.taskId = taskId)

CommentEvents ==
    Where(result.changes, LAMBDA e : e.type = "comment_added")

\* the comments the visited cards' responses held whose createdAt is in the window
InWindowComments ==
    UNION { { c \in Items(v.comments) : InWindow(c.createdAt) } : v \in Visited }

\* C1: every visited card has at most one of card_created, card_updated,
\* card_completed in the result, and a card whose createdAt is in the window
\* has card_created and neither of the other two, whatever its updatedAt is.
C1_OneCardEvent ==
    Returned =>
        \A v \in Visited :
            /\ Cardinality(CardEventsOf(v.card.id, CardTypes)) <= 1
            /\ InWindow(v.card.createdAt) =>
                  /\ Cardinality(CardEventsOf(v.card.id, {"card_created"})) = 1
                  /\ CardEventsOf(v.card.id, {"card_updated", "card_completed"}) = {}

C1_Witness ==
    /\ Returned
    /\ \E v \in Visited :
          /\ InWindow(v.card.createdAt) /\ InWindow(v.card.updatedAt)
          /\ v.card.updatedAt = v.card.createdAt
    /\ \E v \in Visited :
          /\ InWindow(v.card.createdAt) /\ InWindow(v.card.updatedAt)
          /\ v.card.updatedAt # v.card.createdAt /\ v.card.isCompleted

\* C2 as stated: every fetched task with isCompleted = true and updatedAt in
\* the window has exactly one task_completed event in the result.
C2_Original ==
    Returned =>
        \A v \in Visited : \A t \in Items(v.tasks) :
            (t.isCompleted /\ InWindow(t.updatedAt)) =>
                Cardinality(TaskEventsOf(t.id, v.card.id, {"task_completed"})) = 1

\* C2 as amended: such a task has exactly one task_completed event when its
\* createdAt is outside the window; when createdAt is inside it is reported
\* once as task_created and has no task_completed event.  This holds for the
\* result of every call, however often the call is repeated.
C2_CompletedTaskOnce ==
    Returned =>
        \A v \in Visited : \A t \in Items(v.tasks) :
            (t.isCompleted /\ InWindow(t.updatedAt)) =>
                IF InWindow(t.createdAt)
                THEN /\ TaskEventsOf(t.id, v.card.id, {"task_completed"}) = {}
                     /\ Cardinality(TaskEventsOf(t.id, v.card.id, {"task_created"})) = 1
                ELSE /\ Cardinality(TaskEventsOf(t.id, v.card.id, {"task_completed"})) = 1
                     /\ TaskEventsOf(t.id, v.card.id, {"task_created"}) = {}

C2_Witness ==
    /\ Returned
    /\ \E v \in Visited : \E t \in Items(v.tasks) :
          /\ t.isCompleted /\ InWindow(t.updatedAt) /\ ~InWindow(t.createdAt)
          /\ TaskEventsOf(t.id, v.card.id, {"task_completed"}) # {}

\* C3 as stated: at most maxComments comment_added entries, and
\* summary.newComments is the number of in-window comments.
C3_Original ==
    Returned =>
        /\ Cardinality(CommentEvents) <= MaxCommentsOf(params)
        /\ result.summary.newComments = Cardinality(InWindowComments)

\* C3 as amended: for an integer maxComments = N there are at most max(N, 0)
\* comment_added entries (a negative N gives none), and summary.newComments
\* is the number of in-window comments even when that exceeds N.
C3_CommentCap ==
    Returned =>
        /\ Cardinality(CommentEvents) <= Max0(MaxCommentsOf(params))
        /\ result.summary.newComments = Cardinality(InWindowComments)

C3_Witness ==
    /\ Returned
    /\ MaxCommentsOf(params) = 1
    /\ Cardinality(InWindowComments) > 1
    /\ Cardinality(CommentEvents) = 1
    /\ result.summary.newComments = 2

\* C4: the returned changes are sorted non-increasing by instant.
C4_SortedByInstant ==
    Returned =>
        \A i \in 1..(Len(result.changes) - 1) :
            Instant(result.changes[i].timestamp)
                >= Instant(result.changes[i + 1].timestamp)

\* two events whose strings order the other way round than their instants
C4_Witness ==
    /\ Returned
    /\ \E i, j \in 1..Len(result.changes) :
          /\ i < j
          /\ Instant(result.changes[i].timestamp) > Instant(result.changes[j].timestamp)
          /\ result.changes[i].timestamp.h < result.changes[j].timestamp.h

\* C5: the window is inclusive at both ends and a missing timestamp is never
\* in it: every event of the result has its timestamp in [from, to], and a
\* visited card has a card event exactly when its createdAt or its updatedAt
\* is a date d with from <= d <= to.
C5_InclusiveWindow ==
    Returned =>
        /\ \A i \in 1..Len(result.changes) : InWindow(result.changes[i].timestamp)
        /\ \A v \in Visited :
              (CardEventsOf(v.card.id, CardTypes) # {})
                  <=> (InWindow(v.card.createdAt) \/ InWindow(v.card.updatedAt))
        /\ \A v \in Visited : \A t \in Items(v.tasks) :
              (TaskEventsOf(t.id, v.card.id, TaskTypes) # {})
                  <=> (InWindow(t.createdAt) \/ (t.isCompleted /\ InWindow(t.updatedAt)))

C5_Witness ==
    /\ Returned
    /\ \E v \in Visited :
          /\ Instant(v.card.createdAt) = from
          /\ CardEventsOf(v.card.id, {"card_created"}) # {}
    /\ \E v \in Visited :
          /\ v.card.updatedAt.kind = "iso" /\ Instant(v.card.updatedAt) = to
          /\ CardEventsOf(v.card.id, {"card_completed"}) # {}

Failed(response) == response.asked /\ ~response.ok

\* the result's events other than the task (comment) events of one card
OtherThan(changes, cardId, types) ==
    SelectSeq(changes, LAMBDA e : ~(e.cardId = cardId /\ e.type \in types))

NotComments(changes) == SelectSeq(changes, LAMBDA e : e.type # "comment_added")

\* what the call would have computed had the failed request of the i-th
\* visited card answered with the items D
WithTasks(i, D) == Traverse([visited EXCEPT ![i].tasks = Ok(D)], Window)

WithComments(i, D) == Traverse([visited EXCEPT ![i].comments = Ok(D)], Window)

\* the calls that throw are those whose boards could not be listed or whose
\* window is not a pair of dates, never one that only lost a card's tasks or comments
ThrowsOnlyTopLevel == pc = "thrown" => (bi = 0 \/ from = NaN \/ to = NaN)

NoEventsOfFailedFetch ==
    \A i \in 1..Len(visited) :
        /\ Failed(visited[i].tasks) =>
              CardEventsOf(visited[i].card.id, TaskTypes) = {}
        /\ Failed(visited[i].comments) =>
              CardEventsOf(visited[i].card.id, {"comment_added"}) = {}

\* C6 as stated: a failed tasks (comments) request of a card leaves the call
\* successful, gives that card no task (comment) events, and every other event
\* of the result is what it would be had the request answered, whatever it
\* would have answered.
C6_Original ==
    /\ ThrowsOnlyTopLevel
    /\ Returned =>
          /\ NoEventsOfFailedFetch
          /\ \A i \in 1..Len(visited) :
                /\ Failed(visited[i].tasks) =>
                      \A D \in TasksOf(visited[i].card.id,
                                       MaxFetched - Fetched(visited)) :
                          OtherThan(result.changes, visited[i].card.id, TaskTypes)
                            = OtherThan(Sort(WithTasks(i, D).changes),
                                        visited[i].card.id, TaskTypes)
                /\ Failed(visited[i].comments) =>
                      \A D \in CommentsOf(visited[i].card.id,
                                          MaxFetched - Fetched(visited)) :
                          OtherThan(result.changes, visited[i].card.id, {"comment_added"})
                            = OtherThan(Sort(WithComments(i, D).changes),
                                        visited[i].card.id, {"comment_added"})

\* C6 as amended: as stated, except that after a failed comments request the
\* comment_added entries of the other cards are only guaranteed to be the same
\* when the in-window comments would not have exceeded maxComments; the card
\* and task events are the same in every case.
C6_PartialFailure ==
    /\ ThrowsOnlyTopLevel
    /\ Returned =>
          /\ NoEventsOfFailedFetch
          /\ \A i \in 1..Len(visited) :
                /\ Failed(visited[i].tasks) =>
                      \A D \in TasksOf(visited[i].card.id,
                                       MaxFetched - Fetched(visited)) :
                          OtherThan(result.changes, visited[i].card.id, TaskTypes)
                            = OtherThan(Sort(WithTasks(i, D).changes),
                                        visited[i].card.id, TaskTypes)
                /\ Failed(visited[i].comments) =>
                      \A D \in CommentsOf(visited[i].card.id,
                                          MaxFetched - Fetched(visited)) :
                          LET would == WithComments(i, D)
                          IN  /\ NotComments(result.changes)
                                    = NotComments(Sort(would.changes))
                              /\ would.newComments <= MaxCommentsOf(params) =>
                                    OtherThan(result.changes, visited[i].card.id,
                                              {"comment_added"})
                                      = OtherThan(Sort(would.changes), visited[i].card.id,
                                                  {"comment_added"})

C6_Witness ==
    /\ Returned
    /\ Len(visited) = 2
    /\ Failed(visited[1].comments)
    /\ visited[1].tasks.ok
    /\ CardEventsOf(visited[1].card.id, TaskTypes) # {}
    /\ Failed(visited[2].tasks)
    /\ visited[2].comments.ok
    /\ CardEventsOf(visited[2].card.id, {"comment_added"}) # {}

\* C7: when the boards cannot be listed the call throws one Error whose message
\* starts with "Failed to get activity feed: " and returns nothing; a finished
\* call has either a value or an error, never both.
C7_TopLevelFailure ==
    /\ (bi = 0 /\ pc \notin {"idle", "getBoards"}) => pc = "thrown"
    /\ pc = "thrown" =>
          /\ result.kind = "error"
          /\ DOMAIN result = {"kind", "message"}
          /\ result.message[1] = "Failed to get activity feed: "
    /\ pc = "returned" =>
          /\ result.kind = "value"
          /\ "message" \notin DOMAIN result /\ "error" \notin DOMAIN result
    /\ pc \notin {"thrown", "returned"} => result = NoResult

C7_Witness ==
    /\ pc = "thrown"
    /\ bi = 0
    /\ from # NaN /\ to # NaN
    /\ result.kind = "error"

\* the ids of affectedCards, in order
AffectedIds == [i \in 1..Len(result.affectedCards) |-> result.affectedCards[i].cardId]

NoRepeats(s) == \A i, j \in 1..Len(s) : s[i] = s[j] => i = j

\* an in-window card, task or comment event was found for the visited card v
HasActivity(v) ==
    \/ InWindow(v.card.createdAt)
    \/ InWindow(v.card.updatedAt)
    \/ \E t \in Items(v.tasks) :
          InWindow(t.createdAt) \/ (t.isCompleted /\ InWindow(t.updatedAt))
    \/ \E c \in Items(v.comments) : InWindow(c.createdAt)

\* C8: affectedCards holds each card id at most once, and holds a card exactly
\* when an in-window card, task or comment event was found for it.
C8_AffectedCards ==
    Returned =>
        /\ NoRepeats(AffectedIds)
        /\ { AffectedIds[i] : i \in 1..Len(AffectedIds) }
              = { v.card.id : v \in { x \in Visited : HasActivity(x) } }

\* a card created 40 hours ago is absent under the default 24 hour window while
\* another card is present only because of a task or comment of its own
C8_Witness ==
    /\ Returned
    /\ ~Truthy(params.since) /\ ~Truthy(params.until)
    /\ \E v \in Visited :
          /\ v.card.createdAt = TOld /\ ~HasActivity(v)
          /\ \A i \in 1..Len(AffectedIds) : AffectedIds[i] # v.card.id
    /\ \E v \in Visited :
          /\ ~InWindow(v.card.createdAt) /\ ~InWindow(v.card.updatedAt)
          /\ \E i \in 1..Len(AffectedIds) : AffectedIds[i] = v.card.id

\* C9: userIds is the duplicate-free set of the userId values of all in-window
\* comments and affectedCards holds every card with an in-window comment,
\* whether or not maxComments kept those comments out of changes.
C9_CapKeepsStatistics ==
    Returned =>
        /\ NoRepeats(result.userIds)
        /\ { result.userIds[i] : i \in 1..Len(result.userIds) }
              = { c.userId : c \in { x \in InWindowComments : x.userId # NoUser } }
        /\ \A v \in Visited :
              (\E c \in Items(v.comments) : InWindow(c.createdAt)) =>
                  \E i \in 1..Len(AffectedIds) : AffectedIds[i] = v.card.id

\* two users commented in the window, one materialized entry, both users known
C9_Witness ==
    /\ Returned
    /\ Cardinality(CommentEvents) = 1
    /\ Len(result.userIds) = 2
    /\ \E v \in Visited :
          /\ CardEventsOf(v.card.id, CardTypes \cup TaskTypes \cup {"comment_added"}) = {}
          /\ \E i \in 1..Len(AffectedIds) : AffectedIds[i] = v.card.id

(***************************************************************************)
(* Properties of getBoardSummary.                                          *)
(***************************************************************************)
SummaryReturned == summary.pc = "returned"

Stats == summary.result.stats

\* the integer nearest to 100 * a / b, a tie going up
RoundedPercent(a, b) == (200 * a + b) \div (2 * b)

\* C10: stats.completionPercentage is 0 when totalCards is 0, is otherwise
\* round(100 * doneCount / totalCards), and always lies in 0..100.
C10_Original ==
    SummaryReturned =>
        /\ Stats.completionPercentage \in 0..100
        /\ Stats.completionPercentage =
              IF Stats.totalCards = 0 THEN 0
              ELSE RoundedPercent(Stats.doneCount, Stats.totalCards)

\* 23 cards of 40 are done, which is 57.5 percent, and the summary says 57
C10_Witness ==
    /\ SummaryReturned
    /\ Stats.doneCount = 23
    /\ Stats.totalCards = 40
    /\ Stats.completionPercentage = 57

SummaryLists == summary.result.lists

\* two characters that are the same letter, whatever their case
SameLetter(a, b) ==
    a = b \/ \E k \in 1..Len(UpperCase) : {a, b} = {UpperCase[k], LowerCase[k]}

\* the name is a string that equals wanted when case is ignored
EqualsIgnoringCase(name, wanted) ==
    /\ name.kind = "string"
    /\ Len(name.chars) = Len(wanted)
    /\ \A i \in 1..Len(wanted) : SameLetter(name.chars[i], wanted[i])

\* the lists of the returned summary that carry the reserved name
Named(wanted) ==
    { i \in 1..Len(SummaryLists) : EqualsIgnoringCase(SummaryLists[i].name, wanted) }

RECURSIVE CardsOfLists(_)
\* how many cards the lists hold together
CardsOfLists(ls) ==
    IF ls = <<>> THEN 0 ELSE Len(ls[1].cards) + CardsOfLists(Tail(ls))

\* a count is 0 without a list of that name and the number of cards of the
\* list of that name when there is one
CountsList(count, wanted) ==
    /\ Named(wanted) = {} => count = 0
    /\ \A i \in Named(wanted) :
          Named(wanted) = {i} => count = Len(SummaryLists[i].cards)

\* C11: totalCards is the sum of the card counts of all lists; backlogCount,
\* inProgressCount, testingCount and doneCount are the number of cards of the
\* list whose name equals "backlog", "in progress", "testing", "done" when case
\* is ignored; a reserved list that is missing and lists with a null name
\* contribute 0 and the call does not fail over them.
C11_NamedCounts ==
    /\ summary.pc = "thrown" => summary.board = Null
    /\ SummaryReturned =>
          /\ Stats.totalCards = CardsOfLists(SummaryLists)
          /\ CountsList(Stats.backlogCount, backlog)
          /\ CountsList(Stats.inProgressCount, inProgress)
          /\ CountsList(Stats.testingCount, testing)
          /\ CountsList(Stats.doneCount, done)

\* a list written "DONE" holds cards, the other list has a null name and
\* holds cards too, and there is no Backlog list
C11_Witness ==
    /\ SummaryReturned
    /\ Len(SummaryLists) = 2
    /\ SummaryLists[1].name = Str(<<"D", "O", "N", "E">>)
    /\ SummaryLists[2].name = NullName
    /\ Stats.doneCount = 3
    /\ Len(SummaryLists[2].cards) = 2
    /\ Stats.totalCards = 5
    /\ Stats.backlogCount = 0

\* the suggestion that the counts of the returned summary call for
Suggested ==
    IF Stats.testingCount > 0 THEN "Review cards in Testing that need feedback"
    ELSE IF Stats.inProgressCount > 0 THEN "Continue working on cards in In Progress"
    ELSE IF Stats.backlogCount > 0 THEN "Start working on a card from Backlog"
    ELSE "All tasks complete! Create new cards or projects"

NoReservedList ==
    Named(backlog) \cup Named(inProgress) \cup Named(testing) \cup Named(done) = {}

\* C12: nextActionSuggestion follows the priority Testing, In Progress,
\* Backlog, create new work, first match wins; a board without any of the
\* four reserved list names gets the right totalCards and the create-new-work
\* suggestion.
C12_SuggestionPriority ==
    SummaryReturned =>
        /\ summary.result.workflowState.nextActionSuggestion = Suggested
        /\ NoReservedList =>
              /\ Stats.totalCards = CardsOfLists(SummaryLists)
              /\ summary.result.workflowState.nextActionSuggestion
                    = "All tasks complete! Create new cards or projects"

\* In Progress and Backlog both hold cards, Testing holds none, and In
\* Progress wins
C12_Witness ==
    /\ SummaryReturned
    /\ Stats.inProgressCount > 0
    /\ Stats.backlogCount > 0
    /\ Stats.testingCount = 0
    /\ summary.result.workflowState.nextActionSuggestion
          = "Continue working on cards in In Progress"

(***************************************************************************)
(* Properties of getBoardSummary, request by request.                      *)
(***************************************************************************)
FanReturned == fan.pc = "returned"

\* C13: when the board is not found the call throws a not-found error that
\* names the board id, no other request was issued for the board, and no
\* summary is returned.
C13_NotFoundFailsFast ==
    /\ /\ Settled(fan, Request("getBoard", fan.params.boardId))
       /\ FanBoardOf(fan) = Null
       => fan.pc = "thrown"
    /\ fan.pc = "thrown" =>
          /\ fan.result.kind = "error"
          /\ \E k \in 1..Len(fan.result.message) :
                fan.result.message[k] = fan.params.boardId
          /\ DOMAIN fan.responses = { Request("getBoard", fan.params.boardId) }
          /\ fan.outstanding = {}

\* the board was looked up, was not there, and the call has thrown
C13_Witness ==
    /\ fan.pc = "thrown"
    /\ FanBoardOf(fan) = Null
    /\ fan.result = NotFound(SummaryBoard)

\* the requests for nested collections that failed
FailedFetches ==
    { r \in DOMAIN fan.responses : r.kind # "getBoard" /\ ~fan.responses[r].ok }

\* C14: a failed request for a nested collection (lists, cards, tasks,
\* comments, labels) makes the call fail; no summary is returned after one.
C14_Original == FanReturned => FailedFetches = {}

\* the request for the lists failed and a summary of a board without lists
\* and without cards was returned
C14_Witness ==
    /\ FanReturned
    /\ Request("getLists", fan.params.boardId) \in FailedFetches
    /\ fan.result.lists = <<>>
    /\ fan.result.stats.totalCards = 0

Ids(seq) == [k \in 1..Len(seq) |-> seq[k].id]

\* what must have settled before request r is issued: the lists request
\* naming its list before a cards request, the cards request naming its card
\* before a tasks or comments request
Prerequisite(f, r) ==
    CASE r.kind = "getCards" ->
            /\ Settled(f, Request("getLists", f.params.boardId))
            /\ \E i \in 1..Len(FanAllLists(f)) : FanAllLists(f)[i].id = r.id
      [] r.kind \in {"getTasks", "getComments"} ->
            /\ Settled(f, Request("getLists", f.params.boardId))
            /\ \E i \in 1..Len(FanAllLists(f)) :
                  /\ Settled(f, Request("getCards", FanAllLists(f)[i].id))
                  /\ \E k \in 1..Len(FanListCards(f, FanAllLists(f)[i])) :
                        FanListCards(f, FanAllLists(f)[i])[k].id = r.id
      [] OTHER -> TRUE

\* the returned lists and their cards are in the order of the accessors
OrderKept(f) ==
    /\ Ids(f.result.lists) = Ids(FanAllLists(f))
    /\ \A i \in 1..Len(FanAllLists(f)) :
          Ids(f.result.lists[i].cards) = Ids(FanListCards(f, FanAllLists(f)[i]))

\* C20: a request is issued only once the request it depends on has settled
\* (cards after the lists, tasks and comments after the cards of their list),
\* and whatever the order in which the requests settle, the returned lists
\* and cards are in the order in which the accessors returned them.
C20_DependencyEdges ==
    [][ /\ \A r \in fan'.outstanding \ fan.outstanding : Prerequisite(fan', r)
        /\ fan'.pc = "returned" => OrderKept(fan') ]_vars

\* the callback of the second list resolved before that of the first, with
\* the requests of three cards made, and the summary was returned
C20_Witness ==
    /\ FanReturned
    /\ fan.resolved = <<2, 1>>
    /\ fan.params.includeTaskDetails
    /\ Len(fan.result.lists) = 2
    /\ fan.result.lists[1].cardCount = 2
    /\ fan.result.lists[2].cardCount = 1

(***************************************************************************)
(* The requests of getActivityFeed.                                        *)
(***************************************************************************)
\* how far the traversal is: board, list, card, and the await within them
Phase(p) ==
    CASE p = "getBoards" -> 0 [] p = "getLists" -> 1 [] p = "getCards" -> 2
      [] p = "card" -> 3 [] p = "getTasks" -> 4 [] p = "getComments" -> 5
      [] p = "sort" -> 6 [] OTHER -> 7

RECURSIVE LexLess(_, _)
LexLess(a, b) ==
    /\ a # <<>>
    /\ \/ a[1] < b[1]
       \/ a[1] = b[1] /\ LexLess(Tail(a), Tail(b))

\* the request is the one for the item the traversal stands at
AtPosition(r, p, bs, b, ls, l, cs, c) ==
    /\ r.kind = p
    /\ r.id = CASE p = "getLists" -> bs[b]
                [] p = "getCards" -> ls[l]
                [] p \in {"getTasks", "getComments"} -> cs[c].id
                [] OTHER -> "project"

\* C19: at most one accessor request of a getActivityFeed call is outstanding
\* at any time; a request is issued only when the previous one has settled,
\* and the requests follow the traversal: boards, then per board its lists,
\* per list its cards, per card its tasks and then its comments.
C19_OneAtATime ==
    [][ /\ Cardinality(inflight') <= 1
        /\ inflight' # {} => inflight' \cap inflight = {}
        /\ \A r \in inflight' :
              AtPosition(r, pc', boards', bi', lists', li', cards', ci')
        /\ pc' \in {"getLists", "getCards", "card", "getTasks", "getComments"} =>
              LexLess(<<bi, li, ci, Phase(pc)>>, <<bi', li', ci', Phase(pc')>>)
      ]_vars

\* the comments of the second card are awaited, after the requests of the
\* first card were answered
C19_Witness ==
    /\ inflight = { Request("getComments", "c2") }
    /\ Len(visited) = 2
    /\ visited[1].tasks.asked
    /\ visited[1].comments.asked
    /\ visited[2].tasks.asked

(***************************************************************************)
(* removeLabelFromCard.                                                    *)
(***************************************************************************)
UnlabelDone == unlabel.pc \in {"returned", "thrown"}

\* the DELETE requests among the requests a call issued
Deletes(requests) == Len(SelectSeq(requests, LAMBDA r : r.method = "DELETE"))

\* the service holds an association of the pair of the call
Associated(u) ==
    \E i \in 1..Len(u.cardLabels) :
       u.cardLabels[i].cardId = u.cardId /\ u.cardLabels[i].labelId = u.labelId

Succeeded(res) == res.kind = "value" /\ res.success

\* the call that has finished follows a call for the same pair
SecondOfTwo ==
    /\ UnlabelDone
    /\ unlabel.previous # NoCall
    /\ unlabel.previous.cardId = unlabel.cardId
    /\ unlabel.previous.labelId = unlabel.labelId

Requested == { resolve.userIds[i] : i \in 1..Len(resolve.userIds) }

\* the users of the collection the call fetched
Collection == { resolve.response.items[i] : i \in 1..Len(resolve.response.items) }

\* C16: a resolveUsers call issues one request for the user collection;
\* when it is answered the call returns a map whose keys are the requested
\* ids that are ids of users of the collection, each with the id, name,
\* username and email of that user and nothing else; a requested id of no
\* user is left out and the call still returns.
C16_ResolvedUsers ==
    /\ resolve.pc # "idle" => resolve.requests = << Get(<<"/api/users">>) >>
    /\ resolve.pc = "thrown" => ~resolve.response.ok
    /\ resolve.pc = "returned" =>
          LET map == resolve.result.map
          IN  /\ DOMAIN map = { id \in Requested : \E u \in Collection : u.id = id }
              /\ \A id \in DOMAIN map :
                    /\ DOMAIN map[id] = {"id", "name", "username", "email"}
                    /\ \E u \in Collection :
                          /\ u.id = id
                          /\ map[id].id = id
                          /\ map[id].name = u.name
                          /\ map[id].username = u.username
                          /\ map[id].email = u.email

\* two ids were asked for, one of a user without a name and one of no user:
\* the map holds the first only
C16_Witness ==
    /\ resolve.pc = "returned"
    /\ resolve.userIds = <<"u9", "u2">>
    /\ DOMAIN resolve.result.map = {"u2"}
    /\ resolve.result.map["u2"].name = NullName

(***************************************************************************)
(* createCardWithTasks.                                                    *)
(***************************************************************************)
IsTaskListWrite(r) == r.path[Len(r.path)] = "/task-lists"

\* the card, task and comment writes among requests
ContentWrites(requests) ==
    SelectSeq(requests, LAMBDA r : r.method = "POST" /\ ~IsTaskListWrite(r))

\* a comment body was given: a string that is not empty
BodyGiven(comment) == comment.kind = "string" /\ Len(comment.chars) > 0

GivenNames(p) == IF p.tasks.kind = "array" THEN p.tasks.items ELSE <<>>

\* the writes the parameters call for, in order
ExpectedWrites(p) ==
    << PostCard(IF p.position.given THEN p.position.value ELSE 65535) >>
    \o [j \in 1..Len(GivenNames(p)) |->
          PostTask(NewTaskListId, GivenNames(p)[j], 65535 * j)]
    \o (IF BodyGiven(p.comment) THEN << PostComment(NewCardId, p.comment) >>
        ELSE <<>>)

IsPrefix(s, t) == Len(s) <= Len(t) /\ s = SubSeq(t, 1, Len(s))

\* C17: the card, task and comment writes of a createCardWithTasks call are
\* issued in this order: the card; one task per given name, in input order,
\* the task at index i with position 65535 * (i + 1); one comment when a
\* body was given.  A write is issued only when every earlier one, the card
\* creation first of all, has succeeded, and a call that returns has issued
\* all of them.
C17_WriteOrder ==
    LET writes == ContentWrites(create.requests)
    IN  /\ IsPrefix(writes, ExpectedWrites(create.params))
        /\ create.pc = "returned" => writes = ExpectedWrites(create.params)
        /\ Len(writes) > 1 =>
              /\ create.card # Undefined
              /\ ContentWrites(create.stored)[1] = writes[1]
        /\ \A k \in 1..(Len(writes) - 1) :
              ContentWrites(create.stored)[k] = writes[k]

\* two tasks and a comment were asked for and the call returned: four
\* writes, the second task at position 131070, the comment last
C17_Witness ==
    /\ create.pc = "returned"
    /\ create.params.tasks = Array(<<"b", "a">>)
    /\ BodyGiven(create.params.comment)
    /\ Len(ContentWrites(create.requests)) = 4
    /\ ContentWrites(create.requests)[3].body = [name |-> "a", position |-> 131070]
    /\ ContentWrites(create.requests)[4].body = [text |-> create.params.comment]

\* the call threw after the card was created
FailedAfterCard == create.pc = "thrown" /\ create.card # Undefined

LastRequest == create.requests[Len(create.requests)]

\* C18: when a step of createCardWithTasks after the card creation fails,
\* the call throws an error that names the kind of step, task or comment,
\* that failed; no DELETE was issued; the service still holds the card and
\* the tasks created before; and the failed request is the last one the
\* call issued.
C18_NoRollback ==
    FailedAfterCard =>
       /\ create.result.kind = "error"
       /\ create.result.message[1] =
             (IF LastRequest.path[Len(LastRequest.path)] = "/comments"
              THEN "Failed to create comment: " ELSE "Failed to create task: ")
       /\ \A k \in 1..Len(create.requests) :
             create.requests[k].method \in {"GET", "POST"}
       /\ ContentWrites(create.stored)
             = SubSeq(ExpectedWrites(create.params), 1, 1 + create.i)
       /\ Len(ContentWrites(create.requests)) <= Len(ContentWrites(create.stored)) + 1
       /\ \A k \in 1..Len(create.stored) : create.stored[k] # LastRequest
             \/ IsTaskListWrite(LastRequest)

\* the task at index 1 failed: the card and the task at index 0 stay stored
C18_Witness ==
    /\ FailedAfterCard
    /\ create.i = 1
    /\ LastRequest.method = "POST"
    /\ LastRequest.body = [name |-> "b", position |-> 131070]
    /\ Len(ContentWrites(create.stored)) = 2
    /\ create.result.message = <<"Failed to create task: ", "request error">>

(***************************************************************************)
(* The counters of getActivityFeed.                                        *)
(***************************************************************************)
\* the events of one kind in changes
CountOf(type) == Len(SelectSeq(result.changes, LAMBDA e : e.type = type))

\* C29: in a getActivityFeed result totalChanges is the length of changes
\* and the sum of the five card and task counters and the comment_added
\* entries in changes, and each of the five counters is the number of
\* events of its kind in changes.
C29_CountersMatch ==
    Returned =>
       LET S == result.summary
       IN  /\ S.totalChanges = Len(result.changes)
           /\ S.totalChanges = S.newCards + S.updatedCards + S.completedCards
                                  + S.newTasks + S.completedTasks
                                  + CountOf("comment_added")
           /\ S.newCards = CountOf("card_created")
           /\ S.updatedCards = CountOf("card_updated")
           /\ S.completedCards = CountOf("card_completed")
           /\ S.newTasks = CountOf("task_created")
           /\ S.completedTasks = CountOf("task_completed")

\* a created card, a completed card and two comments in the window, of which
\* maxComments let one into changes
C29_Witness ==
    /\ Returned
    /\ result.summary.newComments = 2
    /\ CountOf("comment_added") = 1
    /\ CountOf("card_created") > 0
    /\ CountOf("card_completed") > 0

(***************************************************************************)
(* The order of events with equal timestamps.                              *)
(***************************************************************************)
\* the events in the order the traversal pushed them
Pushed == Traverse(visited, Window).changes

At(changes, instant) ==
    SelectSeq(changes, LAMBDA e : Instant(e.timestamp) = instant)

\* C23: the events of a getActivityFeed result that denote the same instant
\* stand in changes in the order the traversal produced them: by board, list
\* and card, and within a card the card event, the task events, the comment
\* events.
C23_StableSort ==
    Returned =>
       \A i \in 1..Len(result.changes) :
          LET instant == Instant(result.changes[i].timestamp)
          IN  At(result.changes, instant) = At(Pushed, instant)

\* two cards were created at the same instant and the sort moved a later
\* event in front of them
C23_Witness ==
    /\ Returned
    /\ result.changes # Pushed
    /\ \E i, j \in 1..Len(result.changes) :
          /\ i < j
          /\ Instant(result.changes[i].timestamp) = Instant(result.changes[j].timestamp)
          /\ result.changes[i].cardId = "c1"
          /\ result.changes[j].cardId = "c2"
          /\ result.changes[i].type = "card_created"
          /\ result.changes[j].type = "card_created"

(***************************************************************************)
(* The label statistics of getBoardSummary.                                *)
(***************************************************************************)
\* the service holds a card-label record of the card for a board label of
\* that name
Labelled(card, wanted) ==
    \E k \in 1..Len(summary.cardLabels) :
       /\ summary.cardLabels[k].cardId = card.id
       /\ \E n \in 1..Len(summary.result.labels) :
             /\ summary.result.labels[n].id = summary.cardLabels[k].labelId
             /\ summary.result.labels[n].name.kind = "string"
             /\ EqualsIgnoringCase(summary.result.labels[n].name, wanted)

LabelledCards(wanted) ==
    Len(SelectSeq(FlatCards(SummaryLists), LAMBDA c : Labelled(c, wanted)))

\* C22 as stated: urgentCount is the number of cards of the board that are
\* associated with a board label named "urgent" whatever its case, bugCount
\* likewise for "bug", each card counted once, a label without name never
\* matching.
C22_Original ==
    SummaryReturned =>
       /\ Stats.urgentCount = LabelledCards(urgent)
       /\ Stats.bugCount = LabelledCards(bug)

\* the labels of the board were fetched and a card holds the label Urgent
C22_Witness ==
    /\ SummaryReturned
    /\ Len(summary.result.labels) > 0
    /\ LabelledCards(urgent) > 0
    /\ LabelledCards(bug) > 0
    /\ Stats.urgentCount = 0
    /\ Stats.bugCount = 0

(***************************************************************************)
(* The task-id to card-id map.                                             *)
(***************************************************************************)
LookupTaskIds == { TaskId(n) : n \in 1..(MaxCreated + 1) }

\* every content the map can have
AllMaps == UNION { [D -> LookupCards] : D \in SUBSET LookupTaskIds }

\* the caller named the card
Explicit(cardId) == cardId.given /\ cardId.id # ""

\* C21: when getTask is called with a card id, the requests it issues and
\* what it returns or throws are the same whatever taskCardIdMap holds; when
\* it is called without one for a task id the map does not hold, it issues
\* no request and throws an error that says the card id is required.
C21_CacheAdvisory ==
    lookup.last.op = "getTask" =>
       LET L == lookup.last
       IN  /\ Explicit(L.cardId) =>
                 \A map \in AllMaps :
                    getTask(L.id, L.cardId, map, lookup.stored, L.answered)
                       = [requests |-> L.requests, result |-> L.result]
           /\ ~Explicit(L.cardId) /\ L.id \notin DOMAIN lookup.taskCardIdMap =>
                 /\ L.requests = <<>>
                 /\ L.result.kind = "error"
                 /\ L.result.message[2] = "Card ID is required to get a task. "

\* the map holds card c1 for the task, the caller names card c2, and the
\* task is looked for in c2
C21_Witness ==
    /\ lookup.last.op = "getTask"
    /\ lookup.last.id = TaskId(1)
    /\ lookup.last.cardId = CardIdArg("c2")
    /\ TaskId(1) \in DOMAIN lookup.taskCardIdMap
    /\ lookup.taskCardIdMap[TaskId(1)] = "c1"
    /\ lookup.last.requests = << Get(<<"/api/cards/", "c2">>) >>
    /\ lookup.last.result.kind = "error"

(***************************************************************************)
(* batchCreateTasks.                                                       *)
(***************************************************************************)
BatchReturned == batch.pc = "returned"

\* the input indices, from 0, of the tasks whose createTask failed
FailedIndices ==
    SelectSeq([k \in 1..Len(batch.results) |-> k - 1],
              LAMBDA i : ~batch.results[i + 1].success)

\* C24: batchCreateTasks calls createTask for the tasks one after the other
\* in input order, whether or not an earlier one failed; it does not throw
\* over a failed task; when it returns, results has one entry per task in
\* input order, successes and failures together have as many entries as
\* there are tasks, and failures holds the index of every task that failed.
C24_FailuresIsolated ==
    /\ batch.pc # "thrown"
    /\ Len(batch.calls) <= Len(batch.tasks)
    /\ \A k \in 1..Len(batch.calls) :
          /\ batch.calls[k].name = batch.tasks[k].name
          /\ batch.calls[k].cardId = batch.tasks[k].cardId
    /\ Len(batch.calls) \in {Len(batch.results), Len(batch.results) + 1}
    /\ BatchReturned =>
          /\ Len(batch.calls) = Len(batch.tasks)
          /\ Len(batch.result.results) = Len(batch.tasks)
          /\ Len(batch.result.successes) + Len(batch.result.failures)
                = Len(batch.tasks)
          /\ [k \in 1..Len(batch.result.failures) |-> batch.result.failures[k].index]
                = FailedIndices
          /\ \A k \in 1..Len(batch.result.failures) :
                batch.result.failures[k].task.name
                   = batch.tasks[batch.result.failures[k].index + 1].name

\* the first of two tasks failed and the second was created
C24_Witness ==
    /\ BatchReturned
    /\ Len(batch.tasks) = 2
    /\ ~batch.result.results[1].success
    /\ batch.result.results[2].success
    /\ Len(batch.result.successes) = 1
    /\ batch.result.failures[1].index = 0

\* C25 as stated: a task given with a position is created with that
\* position, a task given without one with 65535 * (i + 1), i its index.
C25_Original ==
    \A k \in 1..Len(batch.calls) :
       batch.calls[k].position.value =
          (IF batch.tasks[k].position.given THEN batch.tasks[k].position.value
           ELSE 65535 * k)

\* the second task was given position 0 and is created with 131070
C25_Witness ==
    /\ Len(batch.calls) = 2
    /\ batch.tasks[2].position = Given(0)
    /\ batch.calls[2].position.value = 131070
    /\ batch.tasks[1].position = Given(5)
    /\ batch.calls[1].position.value = 5

(***************************************************************************)
(* C26.  stopCardStopwatch on a card whose stopwatch is absent or not      *)
(* running returns the card it fetched and issues no PATCH, and the        *)
(* service keeps what it held; on a running stopwatch the PATCH it issues  *)
(* carries startedAt null and total = previous total + the whole seconds   *)
(* elapsed since startedAt.  A stop that follows a stop that returned      *)
(* therefore issues no PATCH and leaves the total as it was.               *)
(***************************************************************************)
StopFetched == watch.op = "stop" /\ watch.card # Undefined

WatchPatches(requests) == SelectSeq(requests, LAMBDA r : r.method = "PATCH")

\* n is the whole number of seconds in ms milliseconds
WholeSeconds(ms, n) == n * 1000 <= ms /\ ms < (n + 1) * 1000

C26_StopOnce ==
    StopFetched =>
        /\ NotRunning(watch.card) =>
              /\ WatchPatches(watch.requests) = <<>>
              /\ watch.stopwatch = watch.card.stopwatch
              /\ watch.pc = "returned"
              /\ watch.result = [kind |-> "value", card |-> watch.card]
        /\ ~NotRunning(watch.card) =>
              /\ Len(WatchPatches(watch.requests)) = 1
              /\ LET body == WatchPatches(watch.requests)[1].body
                 IN  /\ body.startedAt.kind = "null"
                     /\ WholeSeconds(watch.now - DateOf(watch.card.stopwatch.startedAt),
                                     body.total - watch.card.stopwatch.total)
        /\ (watch.previous.kind = "call" /\ watch.previous.op = "stop"
              /\ watch.previous.pc = "returned") =>
              /\ WatchPatches(watch.requests) = <<>>
              /\ watch.previous.result.card.stopwatch = watch.card.stopwatch

\* a stop that wrote a total of at least one second over an earlier total,
\* followed by a stop that wrote nothing
C26_Witness ==
    /\ StopFetched /\ watch.pc = "returned"
    /\ watch.previous.kind = "call" /\ watch.previous.op = "stop"
    /\ watch.previous.pc = "returned"
    /\ Len(WatchPatches(watch.previous.requests)) = 1
    /\ watch.stopwatch.total = 2
    /\ WatchPatches(watch.requests) = <<>>

(***************************************************************************)
(* C27.  Over any sequence of startCardStopwatch and stopCardStopwatch on  *)
(* one card, the total of a stopped stopwatch is the whole seconds of the  *)
(* runs so far, a run lasting from the start that set the stopwatch        *)
(* running to the stop that ended it.                                      *)
(***************************************************************************)
C27_Original ==
    (watch.stopwatch.kind = "stopwatch" /\ watch.stopwatch.startedAt.kind = "null")
        => watch.stopwatch.total = watch.whole

\* a stop has returned after writing a total that is short of the seconds run
C27_Witness ==
    /\ watch.op = "stop" /\ watch.pc = "returned"
    /\ Len(WatchPatches(watch.requests)) = 1
    /\ watch.stopwatch.total < watch.whole

(***************************************************************************)
(* C28.  Every request handed to handleJsonRpc is answered: the            *)
(* notification notifications/initialized with no response, only the 202   *)
(* acknowledgement; every other request with exactly one response, which   *)
(* carries the id of the request and exactly one of result and error.  An  *)
(* unknown method and a tools/call of an unregistered tool give error code *)
(* -32601; a handler that threw gives error code -32000 with the message   *)
(* of what it threw.                                                       *)
(***************************************************************************)
KnownMethods == {"initialize", "notifications/initialized", "tools/list", "tools/call"}

Responded == rpc.pc = "responded"

HasResult(response) == "result" \in DOMAIN response

HasError(response) == "error" \in DOMAIN response

Unregistered(name) ==
    IF name.kind = "string" THEN name.chars[1] \notin RegisteredTools ELSE TRUE

C28_OneResponse ==
    Responded =>
        IF rpc.request.method = "notifications/initialized"
        THEN /\ rpc.response = Null
             /\ Len(rpc.written) = 1
             /\ "data" \notin DOMAIN rpc.written[1]
        ELSE /\ Len(rpc.written) = 1
             /\ rpc.written[1].data = rpc.response
             /\ rpc.response.id = rpc.request.id
             /\ HasResult(rpc.response) # HasError(rpc.response)
             /\ rpc.request.method \notin KnownMethods =>
                    /\ HasError(rpc.response)
                    /\ rpc.response.error.code = -32601
             /\ (rpc.request.method = "tools/call" /\ Unregistered(rpc.request.name)) =>
                    /\ HasError(rpc.response)
                    /\ rpc.response.error.code = -32601
             /\ rpc.settled.kind = "error" =>
                    /\ HasError(rpc.response)
                    /\ rpc.response.error.code = -32000
                    /\ rpc.response.error.message = rpc.settled.message
             /\ rpc.settled.kind = "value" => HasResult(rpc.response)

\* the handler of a registered tool threw and the request had an id
C28_Witness ==
    /\ Responded
    /\ rpc.request.method = "tools/call"
    /\ rpc.request.id = RpcId(2)
    /\ rpc.settled.kind = "error"
    /\ rpc.response.error.code = -32000

(***************************************************************************)
(* C30.  A card created without a position is posted with position 65535,  *)
(* whether createCard is called directly or through the create action of   *)
(* the card manager tool of either front-end.                              *)
(***************************************************************************)
CardPosted == manager.pc \in {"post", "returned"} /\ manager.requests # <<>>

C30_Original ==
    (CardPosted /\ ~manager.args.position.given)
        => manager.requests[1].body.position = BasePosition

\* the card manager was asked for a card without a position, and the service
\* stored the card at position 0
C30_Witness ==
    /\ manager.pc = "returned"
    /\ manager.via \in {"stdio", "http"}
    /\ ~manager.args.position.given
    /\ manager.stored = << manager.requests[1].body >>
    /\ manager.stored[1].position = 0
====
